---- MODULE Spec2Model ----
(***************************************************************************)
(* Secure file-transfer server (lcensies/ssnproj): frame codec, stream     *)
(* reassembly, per-connection handler and the command executor with its    *)
(* per-session storage, as a state machine.                                *)
(*                                                                         *)
(* Strings (filenames, paths, messages) and payloads are sequences of      *)
(* byte values.  AES-GCM and RSA-OAEP are idealised: a sealed payload      *)
(* opens only under the key that sealed it and only if it was not          *)
(* tampered with; SHA-256 is collision free on the modelled keys.          *)
(***************************************************************************)
EXTENDS Integers, Sequences, FiniteSets, TLC

\* ------------------------------------------------------------------------
\* Bounds of the model
\* ------------------------------------------------------------------------
MaxFrames == 3       \* frames a peer sends on one connection
MaxNameLen == 2      \* longest enumerated filename in the path specification
MaxPayload == 2      \* longest frame payload in the framing specification
MaxStream == 2       \* frames in one stream of the framing specification

\* ------------------------------------------------------------------------
\* Protocol constants (pkg/protocol/message.go)
\* ------------------------------------------------------------------------
MessageTypeHandshake == 1
MessageTypeCommand == 2
MessageTypeData == 3
MessageTypeResponse == 4

CommandUpload == 1
CommandDownload == 2
CommandList == 3
CommandDelete == 4

Separator == 47      \* filepath.Separator, '/'

\* characters used in names
Ch == [dot |-> 46, a |-> 97, b |-> 98, nl |-> 10, x |-> 120]

\* ------------------------------------------------------------------------
\* strings
\* ------------------------------------------------------------------------
HasPrefix(s, p) == Len(s) >= Len(p) /\ SubSeq(s, 1, Len(p)) = p

RECURSIVE SplitAcc(_, _, _)
SplitAcc(s, cur, acc) ==
    IF s = <<>> THEN Append(acc, cur)
    ELSE IF Head(s) = Separator
         THEN SplitAcc(Tail(s), <<>>, Append(acc, cur))
         ELSE SplitAcc(Tail(s), Append(cur, Head(s)), acc)

\* the elements of a path between separators
Split(s) == SplitAcc(s, <<>>, <<>>)

RECURSIVE JoinSep(_)
JoinSep(comps) ==
    IF comps = <<>> THEN <<>>
    ELSE IF Len(comps) = 1 THEN comps[1]
    ELSE comps[1] \o <<Separator>> \o JoinSep(Tail(comps))

DotDot == <<Ch.dot, Ch.dot>>

RECURSIVE CleanStack(_, _, _)
CleanStack(comps, stack, rooted) ==
    IF comps = <<>> THEN stack
    ELSE IF Head(comps) = <<>> \/ Head(comps) = <<Ch.dot>>
         THEN CleanStack(Tail(comps), stack, rooted)
    ELSE IF Head(comps) = DotDot
         THEN IF stack # <<>> /\ stack[Len(stack)] # DotDot
              THEN CleanStack(Tail(comps), SubSeq(stack, 1, Len(stack) - 1), rooted)
              ELSE IF rooted THEN CleanStack(Tail(comps), stack, rooted)
              ELSE CleanStack(Tail(comps), Append(stack, Head(comps)), rooted)
    ELSE CleanStack(Tail(comps), Append(stack, Head(comps)), rooted)

\* filepath.IsAbs (Unix)
IsAbs(path) == path # <<>> /\ Head(path) = Separator

\* filepath.Clean (Unix): lexical, no symlink resolution
Clean(path) ==
    LET Joined(st) ==
            IF IsAbs(path) THEN <<Separator>> \o JoinSep(st)
            ELSE IF st = <<>> THEN <<Ch.dot>> ELSE JoinSep(st)
    IN  Joined(CleanStack(Split(path), <<>>, IsAbs(path)))

\* filepath.Join of two elements: empty elements are ignored, result is cleaned
Join(a, b) ==
    IF a = <<>> /\ b = <<>> THEN <<>>
    ELSE IF b = <<>> THEN Clean(a)
    ELSE IF a = <<>> THEN Clean(b)
    ELSE Clean(a \o <<Separator>> \o b)

\* working directory of the server process and its configured root ("data")
Cwd == <<Separator, 115>>
RootDir == <<100, 97, 116, 97>>

\* filepath.Abs
Abs(path) == IF IsAbs(path) THEN Clean(path) ELSE Join(Cwd, path)

\* parent directory of a cleaned absolute path
Parent(p) ==
    LET Up(comps) ==
            IF comps = <<>> THEN <<Separator>>
            ELSE <<Separator>> \o JoinSep(SubSeq(comps, 1, Len(comps) - 1))
    IN  Up(CleanStack(Split(p), <<>>, TRUE))

\* last element of a cleaned absolute path
Base(p) ==
    LET Last(comps) == IF comps = <<>> THEN <<>> ELSE comps[Len(comps)]
    IN  Last(CleanStack(Split(p), <<>>, TRUE))

\* byte-wise lexicographic order
RECURSIVE LessBytes(_, _)
LessBytes(s, t) ==
    IF t = <<>> THEN FALSE
    ELSE IF s = <<>> THEN TRUE
    ELSE IF Head(s) # Head(t) THEN Head(s) < Head(t)
    ELSE LessBytes(Tail(s), Tail(t))

\* ------------------------------------------------------------------------
\* The filesystem: a function from cleaned absolute paths to entries.
\* owner is a ghost field: the session key under which a file was written.
\* ------------------------------------------------------------------------
DirEntry == [isDir |-> TRUE, data |-> <<>>, owner |-> "nil"]
FileEntry(d, k) == [isDir |-> FALSE, data |-> d, owner |-> k]

Exists(f, p) == p \in DOMAIN f
IsDir(f, p) == Exists(f, p) /\ f[p].isDir
IsFile(f, p) == Exists(f, p) /\ ~f[p].isDir

\* prefixes of a cleaned absolute path, outermost first, the path itself last
RECURSIVE Ancestors(_)
Ancestors(p) ==
    IF p = <<Separator>> THEN <<p>> ELSE Append(Ancestors(Parent(p)), p)

\* os.MkdirAll: creates every missing directory on the way; fails when an
\* element of the path exists and is not a directory
MkdirAll(f, path) ==
    LET Make(anc) ==
            IF \E i \in 1..Len(anc) : IsFile(f, anc[i]) THEN [ok |-> FALSE, fs |-> f]
            ELSE [ok |-> TRUE,
                  fs |-> [q \in DOMAIN f \cup {anc[i] : i \in 1..Len(anc)} |->
                             IF q \in DOMAIN f THEN f[q] ELSE DirEntry]]
    IN  Make(Ancestors(Abs(path)))

\* a write that opens the file without truncating it: the bytes of the old
\* content beyond the new data stay
WriteFileNoTruncate(f, path, d, k) ==
    LET Kept(p) == IF IsFile(f, p) /\ Len(f[p].data) > Len(d)
                   THEN SubSeq(f[p].data, Len(d) + 1, Len(f[p].data)) ELSE <<>>
        At(p) ==
            IF IsDir(f, Parent(p)) /\ ~IsDir(f, p) /\ p # <<Separator>>
            THEN [ok |-> TRUE,
                  fs |-> [q \in DOMAIN f \cup {p} |->
                             IF q = p THEN FileEntry(d \o Kept(p), k) ELSE f[q]]]
            ELSE [ok |-> FALSE, fs |-> f]
    IN  At(Abs(path))

\* os.WriteFile (create or truncate): needs an existing parent directory and
\* a target that is not a directory
WriteFile(f, path, d, k) ==
    LET At(p) ==
            IF IsDir(f, Parent(p)) /\ ~IsDir(f, p) /\ p # <<Separator>>
            THEN [ok |-> TRUE,
                  fs |-> [q \in DOMAIN f \cup {p} |->
                             IF q = p THEN FileEntry(d, k) ELSE f[q]]]
            ELSE [ok |-> FALSE, fs |-> f]
    IN  At(Abs(path))

\* os.ReadFile
ReadFile(f, path) ==
    LET At(p) ==
            IF IsFile(f, p) THEN [ok |-> TRUE, data |-> f[p].data, owner |-> f[p].owner]
            ELSE [ok |-> FALSE, data |-> <<>>, owner |-> "nil"]
    IN  At(Abs(path))

\* os.Stat: "ok", "notexist" (ENOENT) or "error" (ENOTDIR: an element of the
\* path prefix is a regular file)
Stat(f, path) ==
    LET At(anc) ==
            IF Exists(f, anc[Len(anc)]) THEN "ok"
            ELSE IF \E i \in 1..Len(anc) : IsFile(f, anc[i]) THEN "error"
            ELSE "notexist"
    IN  At(Ancestors(Abs(path)))

Children(f, p) == {q \in DOMAIN f : q # p /\ Parent(q) = p}

\* os.Remove: removes a file or an empty directory
Remove(f, path) ==
    LET At(p) ==
            IF Exists(f, p) /\ p # <<Separator>> /\ (IsFile(f, p) \/ Children(f, p) = {})
            THEN [ok |-> TRUE, fs |-> [q \in DOMAIN f \ {p} |-> f[q]]]
            ELSE [ok |-> FALSE, fs |-> f]
    IN  At(Abs(path))

RECURSIVE SortNames(_)
SortNames(S) ==
    IF S = {} THEN <<>>
    ELSE LET m == CHOOSE n \in S : \A o \in S : o = n \/ LessBytes(n, o)
         IN  <<m>> \o SortNames(S \ {m})

\* os.ReadDir: the directory's entries sorted by name
ReadDir(f, path) ==
    LET At(p) ==
            IF IsDir(f, p)
            THEN [ok |-> TRUE,
                  names |-> SortNames({Base(q) : q \in {c \in Children(f, p) : ~f[c].isDir}}),
                  paths |-> {c \in Children(f, p) : ~f[c].isDir}]
            ELSE [ok |-> FALSE, names |-> <<>>, paths |-> {}]
    IN  At(Abs(path))

\* every byte string over S of length at most n
BytesUpTo(S, n) == UNION {[1..k -> S] : k \in 0..n}

\* ------------------------------------------------------------------------
\* Integers on the wire
\* ------------------------------------------------------------------------
Min(a, b) == IF a < b THEN a ELSE b

\* binary.BigEndian, 16 and 32 bit unsigned
U16(n) == <<(n \div 256) % 256, n % 256>>
U32(n) == <<(n \div 16777216) % 256, (n \div 65536) % 256, (n \div 256) % 256, n % 256>>
GetU16(s, i) == s[i] * 256 + s[i + 1]
GetU32(s, i) == s[i] * 16777216 + s[i + 1] * 65536 + s[i + 2] * 256 + s[i + 3]
\* 64 bit: the model's sizes stay below 2^31, the upper word is zero
U64(n) == <<0, 0, 0, 0>> \o U32(n)

Zeros(n) == [i \in 1..n |-> 0]

\* bytes.Reader.Read into a slice of `want` bytes with `avail` bytes left:
\* at the end of the input it reports io.EOF, also when want = 0
ReaderRead(avail, want) ==
    IF avail = 0 THEN [n |-> 0, eof |-> TRUE]
    ELSE [n |-> Min(avail, want), eof |-> FALSE]

\* ------------------------------------------------------------------------
\* Keys and the crypto primitives (idealised)
\* ------------------------------------------------------------------------
NoKey == "nil"                \* a nil key
Keys == {"k1", "k2"}          \* distinct well-formed 256-bit session keys
ShortKey == "short"           \* key material of 5 bytes, not an AES key size
KeyIds == Keys \cup {ShortKey}

KeyLen(k) == IF k \in Keys THEN 32 ELSE IF k = ShortKey THEN 5 ELSE 0

\* aes.NewCipher accepts 16, 24 and 32 byte keys
NewCipherOk(k) == KeyLen(k) \in {16, 24, 32}

NonceSize == 12
TagSize == 16

\* what travels as the payload of a frame
ClearPayload(b) == [kind |-> "clear", key |-> NoKey, bytes |-> b, ok |-> TRUE]
SealedPayload(k, b, good) == [kind |-> "sealed", key |-> k, bytes |-> b, ok |-> good]
RsaPayload(k, good) == [kind |-> "rsa", key |-> k, bytes |-> <<>>, ok |-> good]

\* number of bytes of a payload on the wire
WireLen(p) ==
    IF p.kind = "clear" THEN Len(p.bytes)
    ELSE IF p.kind = "sealed" THEN NonceSize + Len(p.bytes) + TagSize
    ELSE 256

\* aes.Encrypt: nonce || ciphertext || tag
Encrypt(plaintext, key) ==
    IF ~NewCipherOk(key) THEN [ok |-> FALSE, out |-> ClearPayload(<<>>)]
    ELSE [ok |-> TRUE, out |-> SealedPayload(key, plaintext, TRUE)]

\* aes.Decrypt: fails on a bad key size, on an input shorter than the nonce
\* and when the tag does not verify under this key
Decrypt(ciphertext, key) ==
    IF ~NewCipherOk(key) THEN [ok |-> FALSE, out |-> <<>>]
    ELSE IF WireLen(ciphertext) < NonceSize THEN [ok |-> FALSE, out |-> <<>>]
    ELSE IF ciphertext.kind = "sealed" /\ ciphertext.key = key /\ ciphertext.ok
         THEN [ok |-> TRUE, out |-> ciphertext.bytes]
         ELSE [ok |-> FALSE, out |-> <<>>]

\* Message.Decrypt: replaces the payload by its plaintext
MessageDecrypt(message, key) ==
    LET Plain(d) == [ok |-> d.ok, Type |-> message.Type, Payload |-> d.out]
    IN  Plain(Decrypt(message.Payload, key))

\* rsa.DecryptWithPrivateKey has a single result: the transported key, or
\* nil when the ciphertext does not decrypt
DecryptWithPrivateKey(payload) ==
    IF payload.kind = "rsa" /\ payload.ok THEN payload.key ELSE NoKey

\* first 8 bytes of sha256.Sum256(key): a fixed table, distinct keys have
\* distinct digests
KeySeed(k) == CASE k = "k1" -> 1 [] k = "k2" -> 2 [] k = "short" -> 3 [] OTHER -> 0
Sha256Prefix(k) == [i \in 1..8 |-> (KeySeed(k) * 31 + i * 7) % 256]

HexDigit(d) == IF d < 10 THEN 48 + d ELSE 87 + d

\* hex.EncodeToString
RECURSIVE HexEncode(_)
HexEncode(b) ==
    IF b = <<>> THEN <<>>
    ELSE <<HexDigit(Head(b) \div 16), HexDigit(Head(b) % 16)>> \o HexEncode(Tail(b))

\* hex.EncodeToString(hash[:8]) for every key of the model
ClientIds == [k \in KeyIds \cup {NoKey} |-> HexEncode(Sha256Prefix(k))]

clientID(k) == ClientIds[k]

\* ------------------------------------------------------------------------
\* Payload codecs
\* ------------------------------------------------------------------------
SerializeCommand(cmd, filename, data) ==
    <<cmd>> \o U16(Len(filename) % 65536) \o filename \o data

DeserializeCommand(data) ==
    IF Len(data) < 3 THEN [ok |-> FALSE, Command |-> 0, Filename |-> <<>>, Data |-> <<>>]
    ELSE LET filenameLen == GetU16(data, 2)
             r == ReaderRead(Len(data) - 3, filenameLen)
         IN  IF r.eof
             THEN [ok |-> FALSE, Command |-> 0, Filename |-> <<>>, Data |-> <<>>]
             ELSE [ok |-> TRUE, Command |-> data[1],
                   Filename |-> SubSeq(data, 4, 3 + r.n) \o Zeros(filenameLen - r.n),
                   Data |-> SubSeq(data, 4 + r.n, Len(data))]

SerializeResponse(success, message, data) ==
    <<IF success THEN 1 ELSE 0>> \o U16(Len(message) % 65536) \o message \o data

DeserializeResponse(data) ==
    IF Len(data) < 3 THEN [ok |-> FALSE, Success |-> FALSE, Message |-> <<>>, Data |-> <<>>]
    ELSE LET messageLen == GetU16(data, 2)
             r == ReaderRead(Len(data) - 3, messageLen)
         IN  IF r.eof
             THEN [ok |-> FALSE, Success |-> FALSE, Message |-> <<>>, Data |-> <<>>]
             ELSE [ok |-> TRUE, Success |-> (data[1] = 1),
                   Message |-> SubSeq(data, 4, 3 + r.n) \o Zeros(messageLen - r.n),
                   Data |-> SubSeq(data, 4 + r.n, Len(data))]

\* chunk payload: filename length, filename, index, total chunks, chunk
\* size, total size, data
SerializeChunkData(chunk) ==
    U16(Len(chunk.Filename) % 65536) \o chunk.Filename \o U32(chunk.ChunkIndex)
    \o U32(chunk.TotalChunks) \o U32(chunk.ChunkSize) \o U64(chunk.TotalSize)
    \o chunk.Data

\* DeserializeChunkData: the inverse of SerializeChunkData; total size is
\* returned as its two 32-bit words
DeserializeChunkData(data) ==
    LET Bad == [ok |-> FALSE, Filename |-> <<>>, ChunkIndex |-> 0, TotalChunks |-> 0,
                ChunkSize |-> 0, TotalSizeHigh |-> 0, TotalSize |-> 0, Data |-> <<>>]
        Fields(n) ==
            IF Len(data) < 22 + n THEN Bad
            ELSE [ok |-> TRUE, Filename |-> SubSeq(data, 3, 2 + n),
                  ChunkIndex |-> GetU32(data, 3 + n),
                  TotalChunks |-> GetU32(data, 7 + n),
                  ChunkSize |-> GetU32(data, 11 + n),
                  TotalSizeHigh |-> GetU32(data, 15 + n),
                  TotalSize |-> GetU32(data, 19 + n),
                  Data |-> SubSeq(data, 23 + n, Len(data))]
    IN  IF Len(data) < 2 THEN Bad ELSE Fields(GetU16(data, 1))

\* ------------------------------------------------------------------------
\* Frame codec and reassembly buffer on bytes (pkg/protocol/message.go)
\* ------------------------------------------------------------------------
\* Message.Serialize: type, 4-byte big-endian length, payload
Serialize(m) == <<m.Type>> \o U32(Len(m.Payload)) \o m.Payload

\* Deserialize: consumed is the position of the reader afterwards
Deserialize(data) ==
    IF Len(data) < 5 THEN [ok |-> FALSE, Type |-> 0, Payload |-> <<>>, consumed |-> 0]
    ELSE LET payloadLen == GetU32(data, 2)
             r == ReaderRead(Len(data) - 5, payloadLen)
         IN  IF r.eof THEN [ok |-> FALSE, Type |-> 0, Payload |-> <<>>, consumed |-> 5]
             ELSE [ok |-> TRUE, Type |-> data[1],
                   Payload |-> SubSeq(data, 6, 5 + r.n) \o Zeros(payloadLen - r.n),
                   consumed |-> 5 + r.n]

\* MessageBuffer.AddData
AddData(buffer, data) == buffer \o data

\* TryDeserialize that gives up the bytes of a frame whose payload is not
\* complete yet
TryDeserializeDropsPartial(buffer) ==
    IF Len(buffer) < 5
    THEN [status |-> "insufficient", Type |-> 0, Payload |-> <<>>, buffer |-> buffer]
    ELSE IF Len(buffer) < 5 + GetU32(buffer, 2)
    THEN [status |-> "incomplete", Type |-> 0, Payload |-> <<>>, buffer |-> <<>>]
    ELSE [status |-> "ok", Type |-> buffer[1],
          Payload |-> SubSeq(buffer, 6, 5 + GetU32(buffer, 2)),
          buffer |-> SubSeq(buffer, 6 + GetU32(buffer, 2), Len(buffer))]

\* MessageBuffer.TryDeserialize: status is "ok", "insufficient"
\* (ErrInsufficientData), "incomplete" (ErrIncompletePayload) or "error"
TryDeserialize(buffer) ==
    IF Len(buffer) < 5
    THEN [status |-> "insufficient", Type |-> 0, Payload |-> <<>>, buffer |-> buffer]
    ELSE LET payloadLen == GetU32(buffer, 2)
             totalMessageLen == 5 + payloadLen
         IN  IF Len(buffer) < totalMessageLen
             THEN [status |-> "incomplete", Type |-> 0, Payload |-> <<>>, buffer |-> buffer]
             ELSE LET messageData == SubSeq(buffer, 1, totalMessageLen)
                      remainingData == SubSeq(buffer, totalMessageLen + 1, Len(buffer))
                      message == Deserialize(messageData)
                  IN  IF ~message.ok
                      THEN [status |-> "error", Type |-> 0, Payload |-> <<>>, buffer |-> buffer]
                      ELSE [status |-> "ok", Type |-> message.Type,
                            Payload |-> message.Payload, buffer |-> remainingData]

NewMessage(msgType, payload) == [Type |-> msgType, Payload |-> payload]

\* ------------------------------------------------------------------------
\* Response texts (pkg/server/commands.go)
\* ------------------------------------------------------------------------
\* "Invalid filename"
errInvalidFilename == <<73, 110, 118, 97, 108, 105, 100, 32, 102, 105, 108, 101, 110, 97, 109, 101>>
\* "Failed to write file"
msgWriteFailed == <<70, 97, 105, 108, 101, 100, 32, 116, 111, 32, 119, 114, 105, 116, 101, 32, 102, 105, 108, 101>>
\* "File uploaded successfully"
msgUploaded == <<70, 105, 108, 101, 32, 117, 112, 108, 111, 97, 100, 101, 100, 32, 115, 117, 99, 99, 101, 115, 115, 102, 117, 108, 108, 121>>
\* "File not found or failed to read"
msgReadFailed == <<70, 105, 108, 101, 32, 110, 111, 116, 32, 102, 111, 117, 110, 100, 32, 111, 114, 32, 102, 97, 105, 108, 101, 100, 32, 116, 111, 32, 114, 101, 97, 100>>
\* "Starting chunked download"
msgStartDownload == <<83, 116, 97, 114, 116, 105, 110, 103, 32, 99, 104, 117, 110, 107, 101, 100, 32, 100, 111, 119, 110, 108, 111, 97, 100>>
\* "Failed to get client directory"
msgClientDirFailed == <<70, 97, 105, 108, 101, 100, 32, 116, 111, 32, 103, 101, 116, 32, 99, 108, 105, 101, 110, 116, 32, 100, 105, 114, 101, 99, 116, 111, 114, 121>>
\* "Failed to read directory"
msgReadDirFailed == <<70, 97, 105, 108, 101, 100, 32, 116, 111, 32, 114, 101, 97, 100, 32, 100, 105, 114, 101, 99, 116, 111, 114, 121>>
\* "File not found"
msgNotFound == <<70, 105, 108, 101, 32, 110, 111, 116, 32, 102, 111, 117, 110, 100>>
\* "Failed to delete file"
msgDeleteFailed == <<70, 97, 105, 108, 101, 100, 32, 116, 111, 32, 100, 101, 108, 101, 116, 101, 32, 102, 105, 108, 101>>
\* "File deleted successfully"
msgDeleted == <<70, 105, 108, 101, 32, 100, 101, 108, 101, 116, 101, 100, 32, 115, 117, 99, 99, 101, 115, 115, 102, 117, 108, 108, 121>>
\* "Unknown command"
msgUnknownCommand == <<85, 110, 107, 110, 111, 119, 110, 32, 99, 111, 109, 109, 97, 110, 100>>
\* "handshake complete"
msgHandshakeComplete == <<104, 97, 110, 100, 115, 104, 97, 107, 101, 32, 99, 111, 109, 112, 108, 101, 116, 101>>


\* ------------------------------------------------------------------------
\* Command executor (pkg/server/commands.go).  Every handler maps the
\* filesystem to [fs, sent, err]: the filesystem afterwards, the messages
\* handed to SendSecureMessage in order, and whether it returned an error.
\* ------------------------------------------------------------------------
smallFileThreshold == 262144
mediumFileThreshold == 5242880
smallChunkSize == 65536
mediumChunkSize == 131072
largeChunkSize == 262144

Response(success, message) ==
    NewMessage(MessageTypeResponse, SerializeResponse(success, message, <<>>))

\* getClientDir without the client id in the directory name: every session
\* works in the configured root
getClientDirShared(f, aesKey) ==
    LET Made(m) == [ok |-> m.ok, dir |-> IF m.ok THEN RootDir ELSE <<>>, fs |-> m.fs]
    IN  Made(MkdirAll(f, RootDir))

\* the session directory; created on first use
getClientDir(f, aesKey) ==
    LET Made(clientDir, m) ==
            [ok |-> m.ok, dir |-> IF m.ok THEN clientDir ELSE <<>>, fs |-> m.fs]
        In(clientDir) == Made(clientDir, MkdirAll(f, clientDir))
    IN  IF KeyLen(aesKey) = 0 THEN [ok |-> TRUE, dir |-> RootDir, fs |-> f]
        ELSE In(Join(RootDir, clientID(aesKey)))

\* the prefix test without the separator: a sibling whose name starts with
\* the session id passes
WithinRootNoSeparator(absPath, absRoot) ==
    HasPrefix(absPath, absRoot) \/ absPath = absRoot

\* the check that keeps a resolved path inside the session directory
WithinRoot(absPath, absRoot) ==
    HasPrefix(absPath, absRoot \o <<Separator>>) \/ absPath = absRoot

\* validatePath without the rejection of absolute names
validatePathAbsAllowed(f, aesKey, filename) ==
    LET Checked(cd, absRoot, absPath) ==
            IF ~WithinRoot(absPath, absRoot)
            THEN [ok |-> FALSE, path |-> <<>>, fs |-> cd.fs]
            ELSE [ok |-> TRUE, path |-> absPath, fs |-> cd.fs]
        Resolved(cd, absRoot) ==
            Checked(cd, absRoot, Abs(Clean(Join(absRoot, filename))))
        InDir(cd) ==
            IF ~cd.ok THEN [ok |-> FALSE, path |-> <<>>, fs |-> cd.fs]
            ELSE Resolved(cd, Abs(cd.dir))
    IN  IF filename = <<>> THEN [ok |-> FALSE, path |-> <<>>, fs |-> f]
        ELSE InDir(getClientDir(f, aesKey))

validatePath(f, aesKey, filename) ==
    LET Checked(rootDir, absRoot, absPath) ==
            IF ~WithinRoot(absPath, absRoot)
            THEN [ok |-> FALSE, path |-> <<>>, fs |-> rootDir.fs]
            ELSE [ok |-> TRUE, path |-> absPath, fs |-> rootDir.fs]
        Resolved(rootDir, absRoot) ==
            Checked(rootDir, absRoot, Abs(Clean(Join(absRoot, filename))))
        InDir(rootDir) ==
            IF ~rootDir.ok THEN [ok |-> FALSE, path |-> <<>>, fs |-> rootDir.fs]
            ELSE Resolved(rootDir, Abs(rootDir.dir))
    IN  IF filename = <<>> THEN [ok |-> FALSE, path |-> <<>>, fs |-> f]
        ELSE IF IsAbs(filename) THEN [ok |-> FALSE, path |-> <<>>, fs |-> f]
        ELSE InDir(getClientDir(f, aesKey))

handleUpload(f, aesKey, command) ==
    LET Written(w) ==
            IF ~w.ok
            THEN [fs |-> w.fs, sent |-> <<Response(FALSE, msgWriteFailed)>>, err |-> TRUE]
            ELSE [fs |-> w.fs, sent |-> <<Response(TRUE, msgUploaded)>>, err |-> FALSE]
        Validated(filePath) ==
            IF ~filePath.ok
            THEN [fs |-> filePath.fs, sent |-> <<Response(FALSE, errInvalidFilename)>>,
                  err |-> TRUE]
            ELSE Written(WriteFile(filePath.fs, filePath.path, command.Data, aesKey))
    IN  Validated(validatePath(f, aesKey, command.Filename))

\* Sizes and offsets are written in two limbs, hi * 2^16 + lo, so that
\* 32-bit and 64-bit values fit: [hi, lo] with 0 <= lo < Limb.
Limb == 256 * 256
WideOf(n) == [hi |-> n \div Limb, lo |-> n % Limb]
IntOf(w) == w.hi * Limb + w.lo
WideLess(a, b) == a.hi < b.hi \/ (a.hi = b.hi /\ a.lo < b.lo)
WideAdd(a, b) == [hi |-> a.hi + b.hi + (a.lo + b.lo) \div Limb, lo |-> (a.lo + b.lo) % Limb]
\* a - b for a >= b
WideSub(a, b) ==
    IF a.lo >= b.lo THEN [hi |-> a.hi - b.hi, lo |-> a.lo - b.lo]
    ELSE [hi |-> a.hi - b.hi - 1, lo |-> a.lo + Limb - b.lo]

\* conversion to uint32: the value modulo 2^32
Uint32(w) == [hi |-> w.hi % Limb, lo |-> w.lo]

\* sendFileInChunks without the medium row of its switch
chunkSizeForNoMedium(totalSize) ==
    IF WideLess(totalSize, WideOf(smallFileThreshold)) THEN smallChunkSize
    ELSE largeChunkSize

chunkSizeFor(totalSize) ==
    IF WideLess(totalSize, WideOf(smallFileThreshold)) THEN smallChunkSize
    ELSE IF WideLess(totalSize, WideOf(mediumFileThreshold)) THEN mediumChunkSize
    ELSE largeChunkSize

\* totalChunks := uint32((totalSize + uint64(chunkSize) - 1) / uint64(chunkSize));
\* every chunk size is a multiple of Limb, so the quotient is the quotient
\* of the high limbs; it stays below 2^32 for every size below 2^48
totalChunksFor(totalSize, chunkSize) ==
    WideAdd(totalSize, WideOf(chunkSize - 1)).hi \div (chunkSize \div Limb)

\* start and end of chunk i as the loop computes them in uint32, and whether
\* fileData[start:end] is a valid slice expression (it panics when
\* start > end; end never exceeds len(fileData))
chunkBounds(totalSize, i, chunkSize) ==
    LET Slice(start, end) == [start |-> start, end |-> end, ok |-> ~WideLess(end, start)]
        Capped(start, end0, limit) ==
            Slice(start, IF WideLess(limit, end0) THEN limit ELSE end0)
        From(start) ==
            Capped(start, Uint32(WideAdd(start, WideOf(chunkSize))), Uint32(totalSize))
    IN  From(Uint32([hi |-> i * (chunkSize \div Limb), lo |-> 0]))

\* chunk i of the loop in sendFileInChunks
chunkAt(filename, fileData, i, chunkSize, totalChunks) ==
    LET Chunk(chunkData) ==
            [Filename |-> filename, ChunkIndex |-> i, TotalChunks |-> totalChunks,
             ChunkSize |-> Len(chunkData), TotalSize |-> Len(fileData),
             Data |-> chunkData]
        Cut(b) == Chunk(SubSeq(fileData, IntOf(b.start) + 1, IntOf(b.end)))
    IN  Cut(chunkBounds(WideOf(Len(fileData)), i, chunkSize))

\* sendFileInChunks that ends the transfer with a Response of its own
sendFileInChunksThenResponse(filename, fileData) ==
    [i \in 1..totalChunksFor(WideOf(Len(fileData)), chunkSizeFor(WideOf(Len(fileData)))) |->
        NewMessage(MessageTypeData,
            SerializeChunkData(chunkAt(filename, fileData, i - 1,
                chunkSizeFor(WideOf(Len(fileData))),
                totalChunksFor(WideOf(Len(fileData)), chunkSizeFor(WideOf(Len(fileData)))))))]
    \o <<Response(TRUE, msgStartDownload)>>

sendFileInChunks(filename, fileData) ==
    LET Loop(chunkSize, totalChunks) ==
            [i \in 1..totalChunks |->
                NewMessage(MessageTypeData,
                    SerializeChunkData(chunkAt(filename, fileData, i - 1, chunkSize,
                                               totalChunks)))]
        Sized(totalSize) ==
            Loop(chunkSizeFor(totalSize), totalChunksFor(totalSize, chunkSizeFor(totalSize)))
    IN  Sized(WideOf(Len(fileData)))

\* handleDownload that streams the chunks before it sends the Response
handleDownloadChunksFirst(f, aesKey, command) ==
    LET Read(filePath, r) ==
            IF ~r.ok
            THEN [fs |-> filePath.fs, sent |-> <<Response(FALSE, msgReadFailed)>>,
                  err |-> FALSE]
            ELSE [fs |-> filePath.fs,
                  sent |-> sendFileInChunks(command.Filename, r.data)
                           \o <<Response(TRUE, msgStartDownload)>>,
                  err |-> FALSE]
        Validated(filePath) ==
            IF ~filePath.ok
            THEN [fs |-> filePath.fs, sent |-> <<Response(FALSE, errInvalidFilename)>>,
                  err |-> TRUE]
            ELSE Read(filePath, ReadFile(filePath.fs, filePath.path))
    IN  Validated(validatePath(f, aesKey, command.Filename))

handleDownload(f, aesKey, command) ==
    LET Read(filePath, r) ==
            IF ~r.ok
            THEN [fs |-> filePath.fs, sent |-> <<Response(FALSE, msgReadFailed)>>,
                  err |-> FALSE]
            ELSE [fs |-> filePath.fs,
                  sent |-> <<Response(TRUE, msgStartDownload)>>
                           \o sendFileInChunks(command.Filename, r.data),
                  err |-> FALSE]
        Validated(filePath) ==
            IF ~filePath.ok
            THEN [fs |-> filePath.fs, sent |-> <<Response(FALSE, errInvalidFilename)>>,
                  err |-> TRUE]
            ELSE Read(filePath, ReadFile(filePath.fs, filePath.path))
    IN  Validated(validatePath(f, aesKey, command.Filename))

RECURSIVE JoinNames(_)
JoinNames(names) ==
    IF names = <<>> THEN <<>>
    ELSE IF Len(names) = 1 THEN names[1]
    ELSE names[1] \o <<Ch.nl>> \o JoinNames(Tail(names))

handleList(f, aesKey, command) ==
    LET Listed(clientDir, files) ==
            IF ~files.ok
            THEN [fs |-> clientDir.fs, sent |-> <<Response(FALSE, msgReadDirFailed)>>,
                  err |-> TRUE]
            ELSE [fs |-> clientDir.fs, sent |-> <<Response(TRUE, JoinNames(files.names))>>,
                  err |-> FALSE]
        InDir(clientDir) ==
            IF ~clientDir.ok
            THEN [fs |-> clientDir.fs, sent |-> <<Response(FALSE, msgClientDirFailed)>>,
                  err |-> TRUE]
            ELSE Listed(clientDir, ReadDir(clientDir.fs, clientDir.dir))
    IN  InDir(getClientDir(f, aesKey))

\* handleDelete that returns an error after it reported a missing file
handleDeleteNotFoundFails(f, aesKey, command) ==
    LET Removed(r) ==
            IF ~r.ok
            THEN [fs |-> r.fs, sent |-> <<Response(FALSE, msgDeleteFailed)>>, err |-> TRUE]
            ELSE [fs |-> r.fs, sent |-> <<Response(TRUE, msgDeleted)>>, err |-> FALSE]
        Validated(filePath) ==
            IF ~filePath.ok
            THEN [fs |-> filePath.fs, sent |-> <<Response(FALSE, errInvalidFilename)>>,
                  err |-> TRUE]
            ELSE IF Stat(filePath.fs, filePath.path) = "notexist"
            THEN [fs |-> filePath.fs, sent |-> <<Response(FALSE, msgNotFound)>>,
                  err |-> TRUE]
            ELSE Removed(Remove(filePath.fs, filePath.path))
    IN  Validated(validatePath(f, aesKey, command.Filename))

handleDelete(f, aesKey, command) ==
    LET Removed(r) ==
            IF ~r.ok
            THEN [fs |-> r.fs, sent |-> <<Response(FALSE, msgDeleteFailed)>>, err |-> TRUE]
            ELSE [fs |-> r.fs, sent |-> <<Response(TRUE, msgDeleted)>>, err |-> FALSE]
        Validated(filePath) ==
            IF ~filePath.ok
            THEN [fs |-> filePath.fs, sent |-> <<Response(FALSE, errInvalidFilename)>>,
                  err |-> TRUE]
            ELSE IF Stat(filePath.fs, filePath.path) = "notexist"
            THEN [fs |-> filePath.fs, sent |-> <<Response(FALSE, msgNotFound)>>,
                  err |-> FALSE]
            ELSE Removed(Remove(filePath.fs, filePath.path))
    IN  Validated(validatePath(f, aesKey, command.Filename))

\* CommandHandler.handle
handle(f, aesKey, command) ==
    IF command.Command = CommandUpload THEN handleUpload(f, aesKey, command)
    ELSE IF command.Command = CommandDownload THEN handleDownload(f, aesKey, command)
    ELSE IF command.Command = CommandList THEN handleList(f, aesKey, command)
    ELSE IF command.Command = CommandDelete THEN handleDelete(f, aesKey, command)
    ELSE [fs |-> f, sent |-> <<Response(FALSE, msgUnknownCommand)>>, err |-> TRUE]


\* ------------------------------------------------------------------------
\* Connection handler (ConnectionHandler in package server)
\* ------------------------------------------------------------------------
\* two accepted connections, each with its own handler
Conns == {1, 2}

VARIABLES
    fs,             \* the server's filesystem
    state,          \* handler.state of each connection
    aesKey,         \* handler.aesKey, NoKey while nil
    cmdKey,         \* cmdHandler.aesKey
    open,           \* the connection's socket is open on the server side
    pc,             \* where HandleRawRequest is: "read", "drain" or "done"
    messageBuffer,  \* frames buffered by the handler and not yet handled
    wire,           \* frames sent by the peer and not yet read by the server
    peerKey,        \* the key the peer transported in its last handshake
    peerSent,       \* number of frames the peer has sent
    peerClosed,     \* the peer has closed its side of the stream
    nClear,         \* ghost: frames written with a cleartext payload
    nSealed,        \* ghost: frames written with a sealed payload
    nHandshake,     \* ghost: Handshake frames processed
    nExec,          \* ghost: commands dispatched to the executor
    last,           \* ghost: what handling the latest frame did
    mbuf,           \* framing: MessageBuffer.buffer, a byte sequence
    stream,         \* framing: frames the sender serialises, in order
    pending,        \* framing: serialised bytes not yet fed to the buffer
    delivered,      \* framing: messages TryDeserialize returned, in order
    fpc,            \* framing: "idle", "feed", "drain" or "closed"
    codecIn,        \* codec: the value handed to a codec
    codecOut,       \* codec: what decoding its encoding returned
    xfer            \* transfer: a download in progress, see the transfer specifications

connVars == <<fs, state, aesKey, cmdKey, open, pc, messageBuffer, wire, peerKey,
              peerSent, peerClosed, nClear, nSealed, nHandshake, nExec, last>>
frameVars == <<mbuf, stream, pending, delivered, fpc, codecIn, codecOut, xfer>>
vars == <<fs, state, aesKey, cmdKey, open, pc, messageBuffer, wire, peerKey,
          peerSent, peerClosed, nClear, nSealed, nHandshake, nExec, last,
          mbuf, stream, pending, delivered, fpc, codecIn, codecOut, xfer>>

NoCommand == [ok |-> FALSE, Command |-> 0, Filename |-> <<>>, Data |-> <<>>]
NoPath == [ok |-> FALSE, path |-> <<>>]

\* ConnectionHandler.SendSecureMessage: the payload is sealed under the
\* handler's key, type and length stay in the clear
SendSecureMessage(key, message) ==
    LET Sealed(e) == [ok |-> e.ok, frame |-> NewMessage(message.Type, e.out)]
    IN  Sealed(Encrypt(message.Payload, key))

\* the frames written for the messages a handler sends; nothing is written
\* when sealing fails
SealAll(key, msgs) ==
    IF \A i \in 1..Len(msgs) : SendSecureMessage(key, msgs[i]).ok
    THEN [i \in 1..Len(msgs) |-> SendSecureMessage(key, msgs[i]).frame]
    ELSE <<>>

\* NewCommandHandler(handler, logger, rootDir, aesKey): the executor works
\* under the session key of its connection
BindCommandHandler(key) == key

\* handleHandshake: key transport, then the cleartext confirmation
handleHandshake(f, m) ==
    LET Keyed(key) ==
            [fs |-> f, state |-> "Authenticated", aesKey |-> key,
             cmdKey |-> BindCommandHandler(key),
             out |-> <<NewMessage(MessageTypeResponse, ClearPayload(msgHandshakeComplete))>>,
             err |-> FALSE, executed |-> FALSE, command |-> NoCommand, resolved |-> NoPath]
    IN  Keyed(DecryptWithPrivateKey(m.Payload))

\* handleCommand: decode the command payload and dispatch it; resolved is
\* the path validatePath hands to the handlers that call it
handleCommand(f, st, key, ckey, message) ==
    LET Path(v) == [ok |-> v.ok, path |-> v.path]
        Handled(command, r) ==
            [fs |-> r.fs, state |-> st, aesKey |-> key, cmdKey |-> ckey,
             out |-> SealAll(key, r.sent),
             err |-> r.err \/ ~NewCipherOk(key), executed |-> TRUE,
             command |-> command,
             resolved |-> IF command.Command \in {CommandUpload, CommandDownload, CommandDelete}
                          THEN Path(validatePath(f, ckey, command.Filename)) ELSE NoPath]
        Decoded(command) ==
            IF ~command.ok
            THEN [fs |-> f, state |-> st, aesKey |-> key, cmdKey |-> ckey, out |-> <<>>,
                  err |-> TRUE, executed |-> FALSE, command |-> NoCommand, resolved |-> NoPath]
            ELSE Handled(command, handle(f, ckey, command))
    IN  Decoded(DeserializeCommand(message.Payload))

Failed(f, st, key, ckey) ==
    [fs |-> f, state |-> st, aesKey |-> key, cmdKey |-> ckey, out |-> <<>>,
     err |-> TRUE, executed |-> FALSE, command |-> NoCommand, resolved |-> NoPath]

\* handleMessage without the test for a missing key: a frame that arrives
\* before any handshake is taken as it is
handleMessageNoKeyTest(f, st, key, ckey, message) ==
    LET Opened(d) ==
            IF ~d.ok THEN Failed(f, st, key, ckey)
            ELSE IF d.Type = MessageTypeCommand
                 THEN handleCommand(f, st, key, ckey, d)
                 ELSE Failed(f, st, key, ckey)
    IN  IF message.Type = MessageTypeHandshake THEN handleHandshake(f, message)
        ELSE IF key = NoKey
        THEN Opened([ok |-> TRUE, Type |-> message.Type, Payload |-> message.Payload.bytes])
        ELSE Opened(MessageDecrypt(message, key))

handleMessage(f, st, key, ckey, message) ==
    LET Opened(d) ==
            IF ~d.ok THEN Failed(f, st, key, ckey)
            ELSE IF d.Type = MessageTypeCommand
                 THEN handleCommand(f, st, key, ckey, d)
                 ELSE Failed(f, st, key, ckey)
    IN  IF message.Type = MessageTypeHandshake THEN handleHandshake(f, message)
        ELSE IF key = NoKey THEN Failed(f, st, key, ckey)
        ELSE Opened(MessageDecrypt(message, key))

\* HandleRawRequest after handleMessage returned: an error closes the
\* connection and ends the loop
AfterHandleKeepsGoing(err) == "drain"

AfterHandle(err) == IF err THEN "done" ELSE "drain"

\* Deserialize as called by TryDeserialize on a complete frame: the payload
\* is read with bytes.Reader.Read
FrameReadable(frame) == ~ReaderRead(WireLen(frame.Payload), WireLen(frame.Payload)).eof

ChangedPaths(f, g) ==
    {p \in DOMAIN f \cup DOMAIN g :
        \/ p \notin DOMAIN f
        \/ p \notin DOMAIN g
        \/ f[p] # g[p]}

NoLast == [n |-> 0, frame |-> NewMessage(0, ClearPayload(<<>>)), stateBefore |-> "New",
           keyBefore |-> NoKey, executed |-> FALSE, command |-> NoCommand,
           wrote |-> <<>>, err |-> FALSE, changed |-> {}, resolved |-> NoPath]


\* ------------------------------------------------------------------------
\* What a peer may send
\* ------------------------------------------------------------------------
MaxWire == 2         \* frames in flight towards the server on one connection

NameA == <<Ch.a>>
NameEscape == DotDot \o <<Separator, Ch.a>>          \* "../a"
NameAbs == <<Separator, Ch.a>>                       \* "/a"
NameInner == <<Ch.a, Separator>> \o DotDot \o <<Separator, Ch.a>>   \* "a/../a"

Cmd(c, n, d) == [cmd |-> c, name |-> n, data |-> d]

\* commands of the main specification
PeerCommands(c) ==
    {Cmd(CommandUpload, NameA, <<c>>), Cmd(CommandUpload, NameEscape, <<c>>),
     Cmd(CommandUpload, <<>>, <<c>>),
     Cmd(CommandDownload, NameA, <<>>), Cmd(CommandDownload, NameEscape, <<>>),
     Cmd(CommandList, NameA, <<>>), Cmd(CommandList, <<>>, <<>>),
     Cmd(CommandDelete, NameA, <<>>), Cmd(CommandDelete, NameAbs, <<>>),
     Cmd(9, NameA, <<>>)}

CommandFrame(key, q, good) ==
    NewMessage(MessageTypeCommand,
               SealedPayload(key, SerializeCommand(q.cmd, q.name, q.data), good))

HandshakeFrames ==
    {NewMessage(MessageTypeHandshake, RsaPayload(k, TRUE)) : k \in KeyIds}
    \cup {NewMessage(MessageTypeHandshake, RsaPayload(NoKey, FALSE))}

\* frames a peer holding session key k can make besides well-formed commands
OddFrames(c, k) ==
    {CommandFrame(k, Cmd(CommandUpload, NameA, <<c>>), FALSE),
     NewMessage(MessageTypeCommand, ClearPayload(SerializeCommand(CommandList, NameA, <<>>))),
     NewMessage(MessageTypeCommand, ClearPayload(<<>>)),
     NewMessage(MessageTypeCommand, SealedPayload(k, <<CommandList, 0>>, TRUE)),
     NewMessage(MessageTypeData, SealedPayload(k, <<1>>, TRUE)),
     NewMessage(MessageTypeResponse, SealedPayload(k, <<1>>, TRUE))}
    \cup {CommandFrame(o, Cmd(CommandList, NameA, <<>>), TRUE) : o \in Keys \ {k}}

PeerFrames(c, k) ==
    HandshakeFrames
    \cup (IF NewCipherOk(k) THEN {CommandFrame(k, q, TRUE) : q \in PeerCommands(c)} ELSE {})
    \cup OddFrames(c, IF NewCipherOk(k) THEN k ELSE "k1")

\* ------------------------------------------------------------------------
\* Actions
\* ------------------------------------------------------------------------
NoCodec == [op |-> "none"]
NoXfer == [op |-> "none"]

InitFraming ==
    /\ mbuf = <<>> /\ stream = <<>> /\ pending = <<>> /\ delivered = <<>>
    /\ fpc = "idle" /\ codecIn = NoCodec /\ codecOut = NoCodec
    /\ xfer = NoXfer

InitFs == [p \in {<<Separator>>, Cwd} |-> DirEntry]

InitHandlers ==
    /\ state = [c \in Conns |-> "New"]
    /\ aesKey = [c \in Conns |-> NoKey]
    /\ cmdKey = [c \in Conns |-> NoKey]
    /\ open = [c \in Conns |-> TRUE]
    /\ pc = [c \in Conns |-> "read"]
    /\ messageBuffer = [c \in Conns |-> <<>>]
    /\ wire = [c \in Conns |-> <<>>]
    /\ peerKey = [c \in Conns |-> NoKey]
    /\ peerSent = [c \in Conns |-> 0]
    /\ peerClosed = [c \in Conns |-> FALSE]
    /\ nClear = [c \in Conns |-> 0]
    /\ nSealed = [c \in Conns |-> 0]
    /\ nHandshake = [c \in Conns |-> 0]
    /\ nExec = [c \in Conns |-> 0]
    /\ last = [c \in Conns |-> NoLast]

InitConns == fs = InitFs /\ InitHandlers

Init == InitConns /\ InitFraming

\* the peer can write: the connection stands and there is room for a frame
CanSend(c) ==
    /\ open[c] /\ ~peerClosed[c]
    /\ peerSent[c] < MaxFrames
    /\ Len(wire[c]) < MaxWire

\* conn.Write on the peer's side: the frame travels towards the server
Put(c, frame) ==
    /\ wire' = [wire EXCEPT ![c] = Append(@, frame)]
    /\ peerSent' = [peerSent EXCEPT ![c] = @ + 1]
    /\ peerKey' = [peerKey EXCEPT ![c] =
                      IF frame.Type = MessageTypeHandshake /\ frame.Payload.ok
                      THEN frame.Payload.key ELSE @]
    /\ UNCHANGED <<fs, state, aesKey, cmdKey, open, pc, messageBuffer, peerClosed,
                   nClear, nSealed, nHandshake, nExec, last>>

\* the peer writes one frame
Send(c, frame) ==
    /\ CanSend(c)
    /\ Put(c, frame)
    /\ UNCHANGED frameVars

PeerSend(c) == CanSend(c) /\ \E frame \in PeerFrames(c, peerKey[c]) : Send(c, frame)

\* the peer closes the stream
PeerClose(c) ==
    /\ ~peerClosed[c]
    /\ wire[c] = <<>>
    /\ peerClosed' = [peerClosed EXCEPT ![c] = TRUE]
    /\ UNCHANGED <<fs, state, aesKey, cmdKey, open, pc, messageBuffer, wire, peerKey,
                   peerSent, nClear, nSealed, nHandshake, nExec, last>>
    /\ UNCHANGED frameVars

\* HandleRawRequest: reader.Read returned data, AddData appends it
ServerRead(c) ==
    /\ pc[c] = "read" /\ open[c]
    /\ wire[c] # <<>>
    /\ \E n \in 1..Len(wire[c]) :
          /\ messageBuffer' = [messageBuffer EXCEPT ![c] = @ \o SubSeq(wire[c], 1, n)]
          /\ wire' = [wire EXCEPT ![c] = SubSeq(@, n + 1, Len(@))]
    /\ pc' = [pc EXCEPT ![c] = "drain"]
    /\ UNCHANGED <<fs, state, aesKey, cmdKey, open, peerKey, peerSent, peerClosed,
                   nClear, nSealed, nHandshake, nExec, last>>
    /\ UNCHANGED frameVars

\* HandleRawRequest: reader.Read returned io.EOF
ServerReadEOF(c) ==
    /\ pc[c] = "read" /\ open[c]
    /\ wire[c] = <<>> /\ peerClosed[c]
    /\ open' = [open EXCEPT ![c] = FALSE]
    /\ pc' = [pc EXCEPT ![c] = "done"]
    /\ UNCHANGED <<fs, state, aesKey, cmdKey, messageBuffer, wire, peerKey, peerSent,
                   peerClosed, nClear, nSealed, nHandshake, nExec, last>>
    /\ UNCHANGED frameVars

\* inner loop: TryDeserialize has no complete frame, wait for more data
ServerNeedMore(c) ==
    /\ pc[c] = "drain"
    /\ messageBuffer[c] = <<>>
    /\ pc' = [pc EXCEPT ![c] = "read"]
    /\ UNCHANGED <<fs, state, aesKey, cmdKey, open, messageBuffer, wire, peerKey,
                   peerSent, peerClosed, nClear, nSealed, nHandshake, nExec, last>>
    /\ UNCHANGED frameVars

\* inner loop that closes the connection on a framing error and goes on
\* with the frames behind the failing one
ServerFrameErrorKeepsDraining(c) ==
    /\ pc[c] = "drain"
    /\ messageBuffer[c] # <<>>
    /\ ~FrameReadable(Head(messageBuffer[c]))
    /\ open' = [open EXCEPT ![c] = FALSE]
    /\ messageBuffer' = [messageBuffer EXCEPT ![c] = Tail(@)]
    /\ last' = [last EXCEPT ![c] =
                   [n |-> @.n + 1, frame |-> Head(messageBuffer[c]),
                    stateBefore |-> state[c], keyBefore |-> aesKey[c],
                    executed |-> FALSE, command |-> NoCommand, wrote |-> <<>>,
                    err |-> TRUE, changed |-> {}, resolved |-> NoPath]]
    /\ UNCHANGED <<fs, state, aesKey, cmdKey, pc, wire, peerKey, peerSent,
                   peerClosed, nClear, nSealed, nHandshake, nExec>>
    /\ UNCHANGED frameVars

\* inner loop: TryDeserialize fails on a complete frame, the connection is closed
ServerFrameError(c) ==
    /\ pc[c] = "drain"
    /\ messageBuffer[c] # <<>>
    /\ ~FrameReadable(Head(messageBuffer[c]))
    /\ open' = [open EXCEPT ![c] = FALSE]
    /\ pc' = [pc EXCEPT ![c] = "done"]
    /\ last' = [last EXCEPT ![c] =
                   [n |-> @.n + 1, frame |-> Head(messageBuffer[c]),
                    stateBefore |-> state[c], keyBefore |-> aesKey[c],
                    executed |-> FALSE, command |-> NoCommand, wrote |-> <<>>,
                    err |-> TRUE, changed |-> {}, resolved |-> NoPath]]
    /\ UNCHANGED <<fs, state, aesKey, cmdKey, messageBuffer, wire, peerKey, peerSent,
                   peerClosed, nClear, nSealed, nHandshake, nExec>>
    /\ UNCHANGED frameVars

\* inner loop: TryDeserialize returns a frame and handleMessage handles it
HandleFrame(c) ==
    /\ pc[c] = "drain"
    /\ messageBuffer[c] # <<>>
    /\ FrameReadable(Head(messageBuffer[c]))
    /\ \E frame \in {Head(messageBuffer[c])} :
       \E r \in {handleMessage(fs, state[c], aesKey[c], cmdKey[c], frame)} :
           /\ messageBuffer' = [messageBuffer EXCEPT ![c] = Tail(@)]
           /\ fs' = r.fs
           /\ state' = [state EXCEPT ![c] = r.state]
           /\ aesKey' = [aesKey EXCEPT ![c] = r.aesKey]
           /\ cmdKey' = [cmdKey EXCEPT ![c] = r.cmdKey]
           /\ pc' = [pc EXCEPT ![c] = AfterHandle(r.err)]
           /\ open' = [open EXCEPT ![c] = (AfterHandle(r.err) # "done")]
           /\ nClear' = [nClear EXCEPT ![c] =
                            @ + Cardinality({i \in 1..Len(r.out) : r.out[i].Payload.kind = "clear"})]
           /\ nSealed' = [nSealed EXCEPT ![c] =
                            @ + Cardinality({i \in 1..Len(r.out) : r.out[i].Payload.kind = "sealed"})]
           /\ nHandshake' = [nHandshake EXCEPT ![c] =
                            IF frame.Type = MessageTypeHandshake THEN @ + 1 ELSE @]
           /\ nExec' = [nExec EXCEPT ![c] = IF r.executed THEN @ + 1 ELSE @]
           /\ last' = [last EXCEPT ![c] =
                          [n |-> @.n + 1, frame |-> frame, stateBefore |-> state[c],
                           keyBefore |-> aesKey[c], executed |-> r.executed,
                           command |-> r.command, wrote |-> r.out, err |-> r.err,
                           changed |-> ChangedPaths(fs, r.fs), resolved |-> r.resolved]]
    /\ UNCHANGED <<wire, peerKey, peerSent, peerClosed>>

ServerHandle(c) == HandleFrame(c) /\ UNCHANGED frameVars

Next ==
    \E c \in {1} :
        \/ PeerSend(c)
        \/ PeerClose(c)
        \/ ServerRead(c)
        \/ ServerReadEOF(c)
        \/ ServerNeedMore(c)
        \/ ServerFrameError(c)
        \/ ServerHandle(c)

Spec == Init /\ [][Next]_vars


\* ------------------------------------------------------------------------
\* Properties of the connection handler
\* ------------------------------------------------------------------------
Handled(c) == last[c].n > 0

\* the first reply written for the latest frame, decoded
Reply(c) ==
    IF last[c].wrote = <<>>
    THEN [ok |-> FALSE, Success |-> FALSE, Message |-> <<>>, Data |-> <<>>]
    ELSE DeserializeResponse(last[c].wrote[1].Payload.bytes)

Closed(c) == ~open[c] /\ pc[c] = "done"

\* the latest frame was a file command that the executor answered with a
\* failure Response
AppFailure(c) ==
    /\ Handled(c) /\ last[c].executed
    /\ last[c].command.Command \in {CommandUpload, CommandDownload, CommandDelete}
    /\ Reply(c).ok /\ ~Reply(c).Success
    /\ Reply(c).Message \in {errInvalidFilename, msgWriteFailed, msgReadFailed, msgNotFound}

\* C1: a command-level failure of Upload, Download or Delete (invalid
\* filename, missing file, failed write) is answered with a failure Response
\* and leaves the connection open for the next command.
C1_AppFailureKeepsConnection ==
    \A c \in Conns : AppFailure(c) => open[c] /\ pc[c] # "done"

BadSeal(payload, key) ==
    ~(payload.kind = "sealed" /\ payload.key = key /\ payload.ok /\ NewCipherOk(key))

UndecryptableHandled(c) ==
    /\ Handled(c) /\ last[c].stateBefore = "Authenticated"
    /\ last[c].frame.Type # MessageTypeHandshake
    /\ BadSeal(last[c].frame.Payload, last[c].keyBefore)

C4_SecondHandshakeCloses ==
    \A c \in Conns :
        (Handled(c) /\ last[c].frame.Type = MessageTypeHandshake
           /\ last[c].stateBefore = "Authenticated")
        => Closed(c) /\ last[c].wrote = <<>> /\ aesKey[c] = last[c].keyBefore

\* C5: a connection carries exactly one cleartext frame from the server, the
\* handshake reply; every other frame is sealed under the session key that
\* this handshake established.
C5_OneCleartextFrame ==
    \A c \in Conns :
        /\ nClear[c] <= 1
        /\ nHandshake[c] >= 1 => nClear[c] = 1
        /\ nSealed[c] > 0 => nClear[c] = 1
        /\ \A i \in 1..Len(last[c].wrote) :
              \/ /\ last[c].frame.Type = MessageTypeHandshake
                 /\ last[c].wrote[i].Payload.kind = "clear"
              \/ /\ last[c].wrote[i].Payload.kind = "sealed"
                 /\ last[c].wrote[i].Payload.key = aesKey[c]


\* ------------------------------------------------------------------------
\* Path specification: after a handshake the peer sends file commands whose
\* filename is any string over a small alphabet, or one of a few longer
\* names that aim at a sibling of the session directory or at the directory
\* of another session.
\* ------------------------------------------------------------------------
NameBytes == {Separator, Ch.dot, Ch.a}

\* "../<id of k>x": a sibling whose name starts with the session id
NameSibling(k) == DotDot \o <<Separator>> \o clientID(k) \o <<Ch.x>>

\* "../<id of k>/a": a file in the directory of session k
NameOther(k) == DotDot \o <<Separator>> \o clientID(k) \o <<Separator, Ch.a>>

PathNames(k) ==
    BytesUpTo(NameBytes, MaxNameLen)
    \cup {NameEscape, NameAbs, NameInner, NameSibling(k)}
    \cup {NameOther(o) : o \in Keys \ {k}}

\* the filesystem after earlier sessions under each key have uploaded "a"
RECURSIVE UploadedBy(_, _)
UploadedBy(f, ks) ==
    IF ks = {} THEN f
    ELSE LET q == [ok |-> TRUE, Command |-> CommandUpload, Filename |-> NameA, Data |-> <<7>>]
             By(k) == UploadedBy(handleUpload(f, k, q).fs, ks \ {k})
         IN  By(CHOOSE o \in ks : TRUE)

PriorFs == UploadedBy(InitFs, Keys)

PathFrames(c, k) ==
    IF k = NoKey
    THEN {NewMessage(MessageTypeHandshake, RsaPayload(o, TRUE)) : o \in Keys}
    ELSE {CommandFrame(k, Cmd(op, n, <<c>>), TRUE) :
             op \in {CommandUpload, CommandDownload, CommandDelete}, n \in PathNames(k)}

MaxPathCmds == 1     \* file commands a peer sends after its handshake

\* the peer sends its next frame once the previous one has been taken up
PathSend(c) ==
    /\ wire[c] = <<>> /\ messageBuffer[c] = <<>>
    /\ CanSend(c) /\ peerSent[c] <= MaxPathCmds
    /\ \E frame \in PathFrames(c, peerKey[c]) : Send(c, frame)

NextPath ==
    \E c \in {1} :
        \/ PathSend(c)
        \/ PeerClose(c)
        \/ ServerRead(c)
        \/ ServerReadEOF(c)
        \/ ServerNeedMore(c)
        \/ ServerHandle(c)

\* the server starts on an empty disk or on what earlier sessions left
InitPath == fs \in {InitFs, PriorFs} /\ InitHandlers /\ InitFraming

SpecPath == InitPath /\ [][NextPath]_vars

\* the session root of key k and the tree below it
SessionRoots == [k \in KeyIds \cup {NoKey} |-> Abs(Join(RootDir, clientID(k)))]

SessionRoot(k) == SessionRoots[k]

InTree(p, root) ==
    \/ p = root
    \/ /\ Len(p) > Len(root) + 1
       /\ SubSeq(p, 1, Len(root)) = root
       /\ p[Len(root) + 1] = Separator

\* the directories MkdirAll makes for the session: the root and what leads to it
RootChain(root) ==
    {<<Separator>>}
    \cup {SubSeq(root, 1, i) :
             i \in {j \in 1..Len(root) : j = Len(root) \/ root[j + 1] = Separator}}

\* the lexically cleaned join of a filename with the session root
Target(root, name) == Clean(root \o <<Separator>> \o name)

ContainsDotDot(name) ==
    \E i \in 1..(Len(name) - 1) : name[i] = Ch.dot /\ name[i + 1] = Ch.dot

\* the latest frame handled on c was an Upload, Download or Delete
FileCommand(c) ==
    /\ Handled(c) /\ last[c].executed
    /\ last[c].command.Command \in {CommandUpload, CommandDownload, CommandDelete}

InvalidFilenameReply(c) ==
    /\ Len(last[c].wrote) = 1
    /\ Reply(c).ok /\ ~Reply(c).Success /\ Reply(c).Message = errInvalidFilename

C8_NoMutationOnBadName ==
    \A c \in Conns :
        (FileCommand(c)
           /\ LET name == last[c].command.Filename
              IN  name = <<>> \/ name[1] = Separator \/ ContainsDotDot(name))
        => /\ Reply(c).ok /\ ~Reply(c).Success
           /\ last[c].changed = {}

\* the filename is empty, absolute, or its cleaned join with the session
\* root leaves the session tree
Rejected(root, name) ==
    name = <<>> \/ IsAbs(name) \/ ~InTree(Target(root, name), root)

\* C8 amended: a filename that is empty, absolute or resolves outside the
\* session tree makes Upload, Download and Delete reply "Invalid filename"
\* without writing or removing any file; an empty or absolute name changes
\* nothing, an escaping relative name can at most create the session
\* directory and the directories leading to it.
C8_Amended ==
    \A c \in Conns :
        FileCommand(c) =>
            \A root \in {SessionRoot(last[c].keyBefore)}, name \in {last[c].command.Filename} :
                Rejected(root, name) =>
                    /\ InvalidFilenameReply(c)
                    /\ \A q \in last[c].changed : q \in RootChain(root) /\ IsDir(fs, q)
                    /\ (name = <<>> \/ IsAbs(name)) => last[c].changed = {}

\* an escaping name was refused and only the session directory appeared
C8_Witness ==
    \E c \in Conns :
        /\ FileCommand(c)
        /\ last[c].command.Command = CommandUpload
        /\ last[c].command.Filename = NameEscape
        /\ InvalidFilenameReply(c)
        /\ SessionRoot(last[c].keyBefore) \in last[c].changed

\* ------------------------------------------------------------------------
\* Isolation specification: two connections, each with its own session key,
\* send file commands in any interleaving; some of their filenames aim at
\* the directory of the other session.
\* ------------------------------------------------------------------------
MaxIsoCmds == 2      \* file commands each peer sends after its handshake

IsoKey(c) == IF c = 1 THEN "k1" ELSE "k2"

IsoCommands(c) ==
    {Cmd(CommandUpload, NameA, <<c>>), Cmd(CommandDownload, NameA, <<>>),
     Cmd(CommandList, NameA, <<>>), Cmd(CommandDelete, NameA, <<>>)}
    \cup {Cmd(CommandDownload, NameOther(o), <<>>) : o \in Keys \ {IsoKey(c)}}

IsoFrames(c, k) ==
    IF k = NoKey
    THEN {NewMessage(MessageTypeHandshake, RsaPayload(IsoKey(c), TRUE))}
    ELSE {CommandFrame(k, q, TRUE) : q \in IsoCommands(c)}

IsoSend(c) ==
    /\ wire[c] = <<>> /\ messageBuffer[c] = <<>>
    /\ CanSend(c) /\ peerSent[c] <= MaxIsoCmds
    /\ \E frame \in IsoFrames(c, peerKey[c]) : Send(c, frame)

NextIso ==
    \E c \in Conns :
        \/ IsoSend(c)
        \/ ServerRead(c)
        \/ ServerNeedMore(c)
        \/ ServerHandle(c)

SpecIso == Init /\ [][NextIso]_vars

\* what session k can see: the filesystem without the files other sessions wrote
Hide(f, k) == [p \in {q \in DOMAIN f : f[q].isDir \/ f[q].owner = k} |-> f[p]]

\* this step executes a command on connection c
Executes(c) == last'[c].n = last[c].n + 1 /\ last'[c].executed

FrameTags == {MessageTypeData, 200}
PayloadBytes == {0, 7}

FrameSet == {NewMessage(t, p) : t \in FrameTags, p \in BytesUpTo(PayloadBytes, MaxPayload)}

RECURSIVE SerializeAll(_)
SerializeAll(ms) ==
    IF ms = <<>> THEN <<>> ELSE Serialize(Head(ms)) \o SerializeAll(Tail(ms))

RECURSIVE PayloadTotal(_)
PayloadTotal(ms) ==
    IF ms = <<>> THEN 0 ELSE Len(Head(ms).Payload) + PayloadTotal(Tail(ms))

\* the streams sent: up to MaxStream frames that carry up to MaxPayload
\* payload bytes together
FrameStreams ==
    {ms \in UNION {[1..k -> FrameSet] : k \in 1..MaxStream} : PayloadTotal(ms) <= MaxPayload}

InitFramingSpec ==
    /\ InitConns
    /\ stream \in FrameStreams
    /\ pending = SerializeAll(stream)
    /\ mbuf = <<>> /\ delivered = <<>> /\ fpc = "feed"
    /\ codecIn = NoCodec /\ codecOut = NoCodec /\ xfer = NoXfer

\* a read returns the next n bytes of the stream and they are appended
FeedFragment ==
    /\ fpc = "feed" /\ pending # <<>>
    /\ \E n \in 1..Len(pending) :
          /\ mbuf' = AddData(mbuf, SubSeq(pending, 1, n))
          /\ pending' = SubSeq(pending, n + 1, Len(pending))
    /\ fpc' = "drain"
    /\ UNCHANGED <<stream, delivered, codecIn, codecOut>>
    /\ UNCHANGED <<connVars, xfer>>

\* the call of TryDeserialize on the buffer and what it returned
Tried(buffer, t) ==
    /\ codecIn' = [op |-> "TryDeserialize", buffer |-> buffer]
    /\ codecOut' = [op |-> "TryDeserialize", res |-> t]
    /\ mbuf' = t.buffer

\* TryDeserialize returns a frame
DrainFrame ==
    /\ fpc = "drain"
    /\ \E t \in {TryDeserialize(mbuf)} :
          /\ t.status = "ok"
          /\ delivered' = Append(delivered, NewMessage(t.Type, t.Payload))
          /\ Tried(mbuf, t)
    /\ UNCHANGED <<stream, pending, fpc>>
    /\ UNCHANGED <<connVars, xfer>>

\* TryDeserialize reports that the frame is not complete yet
DrainNotReady ==
    /\ fpc = "drain"
    /\ \E t \in {TryDeserialize(mbuf)} :
          /\ t.status \in {"insufficient", "incomplete"}
          /\ Tried(mbuf, t)
    /\ fpc' = "feed"
    /\ UNCHANGED <<stream, pending, delivered>>
    /\ UNCHANGED <<connVars, xfer>>

\* TryDeserialize fails otherwise: the receiver gives the connection up
DrainError ==
    /\ fpc = "drain"
    /\ \E t \in {TryDeserialize(mbuf)} :
          /\ t.status = "error"
          /\ Tried(mbuf, t)
    /\ fpc' = "closed"
    /\ UNCHANGED <<stream, pending, delivered>>
    /\ UNCHANGED <<connVars, xfer>>

NextFraming == FeedFragment \/ DrainFrame \/ DrainNotReady \/ DrainError

SpecFraming == InitFramingSpec /\ [][NextFraming]_vars

IsPrefix(s, t) == Len(s) <= Len(t) /\ SubSeq(t, 1, Len(s)) = s

\* C9: for any frames and any fragmentation of their encodings, feeding the
\* fragments in order and draining yields exactly those frames in order:
\* what was delivered is always a prefix of what was sent, the receiver
\* never gives up, and once every byte is fed and drained all frames are
\* delivered and no byte is left.
C9_StreamReassembly ==
    /\ IsPrefix(delivered, stream)
    /\ fpc # "closed"
    /\ (fpc = "feed" /\ pending = <<>>) => (delivered = stream /\ mbuf = <<>>)

TryCall == codecOut.op = "TryDeserialize"

\* C11: TryDeserialize answers ErrInsufficientData below 5 buffered bytes
\* and ErrIncompletePayload below 5+length bytes; whenever it returns no
\* frame the buffer is exactly what it was, and when it returns a frame the
\* buffer was that frame's 5+length bytes followed by what is kept.
C11_TryDeserializeKeepsBytes ==
    TryCall =>
        /\ Len(codecIn.buffer) < 5 => codecOut.res.status = "insufficient"
        /\ (Len(codecIn.buffer) >= 5
              /\ Len(codecIn.buffer) < 5 + GetU32(codecIn.buffer, 2))
           => codecOut.res.status = "incomplete"
        /\ codecOut.res.status # "ok" => codecOut.res.buffer = codecIn.buffer
        /\ codecOut.res.status = "ok" =>
              /\ Len(codecOut.res.Payload) = GetU32(codecIn.buffer, 2)
              /\ codecIn.buffer =
                    Serialize(NewMessage(codecOut.res.Type, codecOut.res.Payload))
                    \o codecOut.res.buffer
        /\ fpc \in {"feed", "closed"} => mbuf = codecOut.res.buffer

C11_Witness ==
    /\ TryCall /\ codecOut.res.status = "incomplete"
    /\ Len(codecIn.buffer) > 5 /\ mbuf = codecIn.buffer /\ fpc = "feed"

\* ------------------------------------------------------------------------
\* Codec specification: a value is encoded and the encoding decoded again
\* ------------------------------------------------------------------------
CodecTags == {0, MessageTypeHandshake, MessageTypeCommand, MessageTypeData,
              MessageTypeResponse, 200, 255}
CodecBytes == {0, 1, 255}

InitCodec ==
    /\ InitConns
    /\ mbuf = <<>> /\ stream = <<>> /\ pending = <<>> /\ delivered = <<>> /\ fpc = "idle"
    /\ codecIn \in {[op |-> "frame", Type |-> t, Payload |-> p] :
                       t \in CodecTags, p \in BytesUpTo(CodecBytes, MaxPayload)}
    /\ codecOut = NoCodec /\ xfer = NoXfer

\* Deserialize(Serialize(t, p))
RoundTripFrame ==
    /\ codecIn.op = "frame" /\ codecOut.op = "none"
    /\ codecOut' = [op |-> "frame",
                    res |-> Deserialize(Serialize(NewMessage(codecIn.Type, codecIn.Payload)))]
    /\ UNCHANGED <<mbuf, stream, pending, delivered, fpc, codecIn>>
    /\ UNCHANGED <<connVars, xfer>>

NextCodec == RoundTripFrame

SpecCodec == InitCodec /\ [][NextCodec]_vars

\* C10: Deserialize(Serialize(t, p)) succeeds and returns t and p, having
\* consumed 5+|p| bytes, for every tag and every payload, the empty one
\* included.
C10_FrameRoundTrip ==
    codecOut.op = "frame" =>
        /\ codecOut.res.ok
        /\ codecOut.res.Type = codecIn.Type
        /\ codecOut.res.Payload = codecIn.Payload
        /\ codecOut.res.consumed = 5 + Len(codecIn.Payload)

\* ------------------------------------------------------------------------
\* Chunk specification: sendFileInChunks serves a file of a given size, one
\* step per iteration of its loop.  The file's bytes are not stored; the
\* data of a chunk is the range [from, to) of the file it was sliced from.
\* ------------------------------------------------------------------------
\* high limbs around the two thresholds and around 2^32
SizeLimbs ==
    {0, 1,
     smallFileThreshold \div Limb - 1, smallFileThreshold \div Limb,
     mediumFileThreshold \div Limb - 1, mediumFileThreshold \div Limb,
     Limb - largeChunkSize \div Limb - 1, Limb - largeChunkSize \div Limb,
     Limb - 1, Limb}

\* the file of the medium download scenario: 300 KiB
S3File == WideOf(300 * 1024)

FileSizes ==
    {[hi |-> h, lo |-> l] : h \in SizeLimbs, l \in {0, 1, Limb - 1}} \cup {S3File}

NoChunk == [Filename |-> <<>>, ChunkIndex |-> 0, TotalChunks |-> 0,
            ChunkSize |-> WideOf(0), TotalSize |-> WideOf(0),
            from |-> WideOf(0), to |-> WideOf(0)]

\* sendFileInChunks up to the head of its loop
StartSend(filename, totalSize) ==
    [op |-> "send", filename |-> filename, totalSize |-> totalSize,
     chunkSize |-> chunkSizeFor(totalSize),
     totalChunks |-> totalChunksFor(totalSize, chunkSizeFor(totalSize)),
     i |-> 0, status |-> "loop", sent |-> 0,
     prev |-> WideOf(0), pos |-> WideOf(0), chunk |-> NoChunk]

InitChunk ==
    /\ InitConns
    /\ mbuf = <<>> /\ stream = <<>> /\ pending = <<>> /\ delivered = <<>> /\ fpc = "idle"
    /\ codecIn = NoCodec /\ codecOut = NoCodec
    /\ xfer \in {StartSend(NameA, z) : z \in FileSizes}

\* one iteration: the chunk is sliced, serialised and sent
SendChunk ==
    /\ xfer.op = "send" /\ xfer.status = "loop" /\ xfer.i < xfer.totalChunks
    /\ \E b \in {chunkBounds(xfer.totalSize, xfer.i, xfer.chunkSize)} :
          /\ b.ok
          /\ xfer' = [xfer EXCEPT
                !.i = @ + 1, !.sent = @ + 1, !.prev = xfer.pos,
                !.pos = WideAdd(@, WideSub(b.end, b.start)),
                !.chunk = [Filename |-> xfer.filename, ChunkIndex |-> xfer.i,
                           TotalChunks |-> xfer.totalChunks,
                           ChunkSize |-> Uint32(WideSub(b.end, b.start)),
                           TotalSize |-> xfer.totalSize,
                           from |-> b.start, to |-> b.end]]
    /\ UNCHANGED <<connVars, mbuf, stream, pending, delivered, fpc, codecIn, codecOut>>

\* one iteration whose slice expression panics
SendPanic ==
    /\ xfer.op = "send" /\ xfer.status = "loop" /\ xfer.i < xfer.totalChunks
    /\ ~chunkBounds(xfer.totalSize, xfer.i, xfer.chunkSize).ok
    /\ xfer' = [xfer EXCEPT !.status = "panic"]
    /\ UNCHANGED <<connVars, mbuf, stream, pending, delivered, fpc, codecIn, codecOut>>

\* the loop ends and sendFileInChunks returns nil
SendDone ==
    /\ xfer.op = "send" /\ xfer.status = "loop" /\ xfer.i >= xfer.totalChunks
    /\ xfer' = [xfer EXCEPT !.status = "done"]
    /\ UNCHANGED <<connVars, mbuf, stream, pending, delivered, fpc, codecIn, codecOut>>

NextChunk == SendChunk \/ SendPanic \/ SendDone

SpecChunk == InitChunk /\ [][NextChunk]_vars

\* C12: the Data frames of a download carry the indices 0, 1, ... in that
\* order, each chunk's data starts where the previous one ended (so their
\* concatenation is the file), every chunk carries the same total_chunks
\* and total_size = |F|, chunk_size is the length of the chunk's data, only
\* the final chunk is shorter than the nominal size, and the transfer ends
\* with all of F sent in total_chunks chunks.
C12_ChunkSum ==
    xfer.op = "send" =>
        /\ xfer.status # "panic"
        /\ xfer.sent > 0 =>
              /\ xfer.chunk.ChunkIndex = xfer.sent - 1
              /\ xfer.chunk.from = xfer.prev /\ xfer.chunk.to = xfer.pos
              /\ xfer.chunk.TotalChunks = xfer.totalChunks
              /\ xfer.chunk.TotalSize = xfer.totalSize
              /\ xfer.chunk.ChunkSize = WideSub(xfer.chunk.to, xfer.chunk.from)
              /\ xfer.chunk.ChunkIndex < xfer.totalChunks - 1
                    => xfer.chunk.ChunkSize = WideOf(xfer.chunkSize)
        /\ xfer.status = "done" =>
              xfer.pos = xfer.totalSize /\ xfer.sent = xfer.totalChunks

\* the nominal chunk size of the sizing table
NominalSize(totalSize) ==
    IF WideLess(totalSize, WideOf(256 * 1024)) THEN 64 * 1024
    ELSE IF WideLess(totalSize, WideOf(5 * 1024 * 1024)) THEN 128 * 1024
    ELSE 256 * 1024

\* ceil(totalSize / size) for a size that is a multiple of Limb
CeilDiv(totalSize, size) ==
    (totalSize.hi + (IF totalSize.lo > 0 THEN 1 ELSE 0) + size \div Limb - 1)
        \div (size \div Limb)

\* C13: the nominal chunk size follows the sizing table, and when the
\* transfer is over the number of Data frames emitted is
\* ceil(total_size / nominal chunk size).
C13_ChunkSizing ==
    xfer.op = "send" =>
        /\ xfer.chunkSize = NominalSize(xfer.totalSize)
        /\ xfer.status \in {"done", "panic"} =>
              xfer.sent = CeilDiv(xfer.totalSize, NominalSize(xfer.totalSize))

\* ------------------------------------------------------------------------
\* Pipelining specification: the server starts with a file "a" in every
\* session directory; one peer completes a handshake and sends commands
\* without waiting for the replies.
\* ------------------------------------------------------------------------
OrderCommands ==
    {Cmd(CommandDownload, NameA, <<>>), Cmd(CommandDownload, NameEscape, <<>>),
     Cmd(CommandDownload, NameInner \o NameA, <<>>),
     Cmd(CommandUpload, NameA, <<>>), Cmd(CommandUpload, NameA, <<1, 2>>),
     Cmd(CommandList, NameA, <<>>), Cmd(CommandDelete, NameA, <<>>),
     Cmd(9, NameA, <<>>)}

OrderFrames(k) ==
    IF k = NoKey
    THEN {NewMessage(MessageTypeHandshake, RsaPayload("k1", TRUE))}
    ELSE {CommandFrame(k, q, TRUE) : q \in OrderCommands}

OrderSend(c) == CanSend(c) /\ \E frame \in OrderFrames(peerKey[c]) : Send(c, frame)

NextOrder ==
    \E c \in {1} :
        \/ OrderSend(c)
        \/ ServerRead(c)
        \/ ServerNeedMore(c)
        \/ ServerHandle(c)

InitOrder == fs = PriorFs /\ InitHandlers /\ InitFraming

SpecOrder == InitOrder /\ [][NextOrder]_vars

\* frames sent to the server and not handled yet, oldest first
Queue(c) == messageBuffer[c] \o wire[c]

\* frames the server has written on c
Written(c) == nClear[c] + nSealed[c]

\* the replies to one frame: a Response first, then Data frames with the
\* chunk indices 0, 1, ...
OrderedReply(w) ==
    \A i \in 1..Len(w) :
        IF i = 1 THEN w[i].Type = MessageTypeResponse
        ELSE /\ w[i].Type = MessageTypeData
             /\ DeserializeChunkData(w[i].Payload.bytes).ok
             /\ DeserializeChunkData(w[i].Payload.bytes).ChunkIndex = i - 2

NotServable(f, root, name) ==
    Rejected(root, name) \/ ~IsFile(f, Target(root, name))

\* C15: a command dispatched to the executor is answered with exactly one
\* Response, which comes first; Data frames follow only the success
\* Response of a Download of a file that is there; a Download of a missing
\* file or with an invalid filename gets a single failure Response and no
\* Data frame.
C15_OneResponsePerCommand ==
    [][\A c \in Conns :
          Executes(c) =>
            /\ Len(last'[c].wrote) >= 1
            /\ last'[c].wrote[1].Type = MessageTypeResponse
            /\ \A i \in 2..Len(last'[c].wrote) : last'[c].wrote[i].Type = MessageTypeData
            /\ Len(last'[c].wrote) > 1 =>
                  /\ last'[c].command.Command = CommandDownload
                  /\ Reply(c)'.ok /\ Reply(c)'.Success
                  /\ ~NotServable(fs, SessionRoot(aesKey[c]), last'[c].command.Filename)
            /\ (last'[c].command.Command = CommandDownload
                  /\ NotServable(fs, SessionRoot(aesKey[c]), last'[c].command.Filename))
               => /\ Len(last'[c].wrote) = 1
                  /\ Reply(c)'.ok /\ ~Reply(c)'.Success]_vars

\* a Download of a name that resolves inside the session directory, where
\* no such file is, got its single failure Response
C15_Witness ==
    \E c \in Conns :
        /\ last[c].executed /\ last[c].command.Command = CommandDownload
        /\ last[c].resolved.ok /\ ~IsFile(fs, last[c].resolved.path)
        /\ Len(last[c].wrote) = 1
        /\ Reply(c).ok /\ ~Reply(c).Success /\ Reply(c).Message = msgReadFailed

\* this step executes a Delete with a filename that is not refused
Deletes(c) ==
    /\ Executes(c) /\ last'[c].command.Command = CommandDelete
    /\ ~Rejected(SessionRoot(aesKey[c]), last'[c].command.Filename)

\* C20: a Delete of an existing file replies success and removes the file;
\* a Delete that directly follows a successful Delete of the same filename
\* on the connection replies "File not found"; the connection stays open
\* after both.
C20_DeleteThenDelete ==
    [][\A c \in Conns :
          /\ (Deletes(c)
                /\ IsFile(fs, Target(SessionRoot(aesKey[c]), last'[c].command.Filename)))
             => /\ Reply(c)'.ok /\ Reply(c)'.Success /\ Reply(c)'.Message = msgDeleted
                /\ Target(SessionRoot(aesKey[c]), last'[c].command.Filename) \notin DOMAIN fs'
                /\ open'[c] /\ pc'[c] # "done"
          /\ (Deletes(c)
                /\ last[c].executed /\ last[c].command.Command = CommandDelete
                /\ last[c].command.Filename = last'[c].command.Filename
                /\ Reply(c).ok /\ Reply(c).Success)
             => /\ Reply(c)'.ok /\ ~Reply(c)'.Success /\ Reply(c)'.Message = msgNotFound
                /\ Len(last'[c].wrote) = 1
                /\ fs' = fs
                /\ open'[c] /\ pc'[c] # "done"]_vars

\* the second of two Deletes was answered "File not found" and the
\* connection is open
C20_Witness ==
    \E c \in Conns :
        /\ nExec[c] = 2 /\ last[c].n = 3
        /\ last[c].executed /\ last[c].command.Command = CommandDelete
        /\ last[c].command.Filename = NameA
        /\ Reply(c).ok /\ Reply(c).Message = msgNotFound
        /\ open[c]
        /\ \A p \in DOMAIN fs : fs[p].isDir \/ fs[p].owner # aesKey[c]

\* ------------------------------------------------------------------------
\* Client driver (pkg/client/client.go).  The client's state is the record
\* xfer: where the client is (cpc), its session key, the frames the server
\* has written and the client has not received yet (inbox), and the local
\* variables of UploadFile, DownloadFile and receiveFileChunks.
\* ------------------------------------------------------------------------
MaxClientOps == 3    \* UploadFile and DownloadFile calls of one client
MaxChunks == 2       \* largest total_chunks and total_size a peer announces

ClientNew ==
    [op |-> "client", cpc |-> "new", key |-> NoKey, inbox |-> <<>>,
     local |-> <<>>, uploaded |-> FALSE, filename |-> <<>>,
     chunks |-> <<>>, totalSize |-> <<0, 0>>, totalChunks |-> 0, out |-> <<>>,
     got |-> <<>>, did |-> "none", result |-> "none", ops |-> 0]

\* Client.ReceiveSecureMessage: one frame is read and its payload decrypted
ReceiveSecureMessage(key, frame) ==
    LET Plain(d) == [ok |-> d.ok, Type |-> frame.Type, Payload |-> d.out]
    IN  Plain(Decrypt(frame.Payload, key))

\* Client.SendSecureMessage for a command
ClientCommand(key, cmd, filename, data) ==
    NewMessage(MessageTypeCommand, Encrypt(SerializeCommand(cmd, filename, data), key).out)

\* UploadFile and DownloadFile after the command is sent: the error they
\* return on the response, or "ok"
awaitResponse(key, frame) ==
    LET Parsed(respMsg) ==
            IF ~respMsg.ok THEN "deserialize response"
            ELSE IF ~respMsg.Success THEN "failed" ELSE "ok"
        Got(response) ==
            IF ~response.ok THEN "receive response"
            ELSE IF response.Type # MessageTypeResponse THEN "unexpected response type"
            ELSE Parsed(DeserializeResponse(response.Payload))
    IN  Got(ReceiveSecureMessage(key, frame))

\* DownloadFile returns
Returned(st, result) == [st EXCEPT !.cpc = "ready", !.did = "download", !.result = result]

\* receiveFileChunks after its loop, without the comparison of the file size
finishDownloadNoSizeCheck(st) ==
    IF Len(st.chunks) # st.totalChunks THEN Returned(st, "incomplete download")
    ELSE Returned(st, "ok")

\* receiveFileChunks after its loop: chunk count and file size are verified
finishDownload(st) ==
    IF Len(st.chunks) # st.totalChunks THEN Returned(st, "incomplete download")
    ELSE IF <<0, Len(st.out)>> # st.totalSize THEN Returned(st, "file size mismatch")
    ELSE Returned(st, "ok")

\* one iteration of the loop of receiveFileChunks on the next frame
receiveChunk(st, frame) ==
    LET Counted(s1) == IF Len(s1.chunks) >= s1.totalChunks THEN finishDownload(s1) ELSE s1
        Stored(chunk) ==
            Counted([st EXCEPT
                !.totalSize = IF Len(st.chunks) = 0
                              THEN <<chunk.TotalSizeHigh, chunk.TotalSize>> ELSE @,
                !.totalChunks = IF Len(st.chunks) = 0 THEN chunk.TotalChunks ELSE @,
                !.out = @ \o chunk.Data,
                !.chunks = Append(@, chunk)])
        Data(chunk) ==
            IF ~chunk.ok THEN Returned(st, "deserialize chunk")
            ELSE IF chunk.Filename # st.filename THEN Returned(st, "chunk filename mismatch")
            ELSE Stored(chunk)
        Success(respMsg) == respMsg.ok /\ respMsg.Success
        Got(chunkMsg) ==
            IF ~chunkMsg.ok THEN Returned(st, "receive chunk")
            ELSE IF chunkMsg.Type # MessageTypeData
            THEN IF chunkMsg.Type = MessageTypeResponse
                    /\ Success(DeserializeResponse(chunkMsg.Payload))
                 THEN finishDownload(st)
                 ELSE Returned(st, "unexpected message type")
            ELSE Data(DeserializeChunkData(chunkMsg.Payload))
    IN  Got(ReceiveSecureMessage(st.key, frame))

\* the frames but the first, the first being received
Received(st) == [st EXCEPT !.inbox = Tail(@), !.got = Append(@, Head(st.inbox))]

ClientConn == 1
ClientKey == "k1"
ClientFiles == BytesUpTo({7}, MaxPayload)

frameIdle == <<mbuf, stream, pending, delivered, fpc, codecIn, codecOut>>

\* PerformHandshake: the key is generated and transported
ClientHandshake ==
    /\ xfer.op = "client" /\ xfer.cpc = "new"
    /\ Put(ClientConn, NewMessage(MessageTypeHandshake, RsaPayload(ClientKey, TRUE)))
    /\ xfer' = [xfer EXCEPT !.key = ClientKey, !.cpc = "handshake"]
    /\ UNCHANGED frameIdle

\* PerformHandshake: ReceiveMessage returns the confirmation
ClientHandshakeReply ==
    /\ xfer.op = "client" /\ xfer.cpc = "handshake" /\ xfer.inbox # <<>>
    /\ xfer' = [xfer EXCEPT
            !.inbox = Tail(@),
            !.cpc = IF Head(xfer.inbox).Type = MessageTypeResponse THEN "ready" ELSE "failed"]
    /\ UNCHANGED <<connVars, frameIdle>>

\* UploadFile: the local file is read and sent under its base name
ClientUploadFile ==
    /\ xfer.op = "client" /\ xfer.cpc = "ready" /\ xfer.ops < MaxClientOps
    /\ \E data \in ClientFiles :
          /\ Put(ClientConn, ClientCommand(xfer.key, CommandUpload,
                                           Base(<<Ch.x, Separator>> \o NameA), data))
          /\ xfer' = [xfer EXCEPT !.cpc = "upload", !.local = data, !.uploaded = FALSE,
                                  !.result = "none", !.ops = @ + 1]
    /\ UNCHANGED frameIdle

\* UploadFile: the response arrives
ClientUploadReply ==
    /\ xfer.op = "client" /\ xfer.cpc = "upload" /\ xfer.inbox # <<>>
    /\ \E r \in {awaitResponse(xfer.key, Head(xfer.inbox))} :
          xfer' = [xfer EXCEPT !.inbox = Tail(@), !.cpc = "ready", !.did = "upload",
                               !.result = r, !.uploaded = (r = "ok")]
    /\ UNCHANGED <<connVars, frameIdle>>

\* DownloadFile: the command is sent
ClientDownloadFile ==
    /\ xfer.op = "client" /\ xfer.cpc = "ready" /\ xfer.ops < MaxClientOps
    /\ Put(ClientConn, ClientCommand(xfer.key, CommandDownload, NameA, <<>>))
    /\ xfer' = [xfer EXCEPT !.cpc = "download", !.filename = NameA, !.got = <<>>,
                            !.result = "none", !.ops = @ + 1]
    /\ UNCHANGED frameIdle

\* DownloadFile that creates the output file before it looks at the
\* initial response
ClientDownloadReplyCreatesFirst ==
    /\ xfer.op = "client" /\ xfer.cpc = "download" /\ xfer.inbox # <<>>
    /\ \E r \in {awaitResponse(xfer.key, Head(xfer.inbox))} :
          xfer' = IF r = "ok"
                  THEN [Received(xfer) EXCEPT !.cpc = "chunks", !.chunks = <<>>,
                            !.totalSize = <<0, 0>>, !.totalChunks = 0, !.out = <<>>]
                  ELSE Returned([Received(xfer) EXCEPT !.out = <<>>], r)
    /\ UNCHANGED <<connVars, frameIdle>>

\* DownloadFile: the initial response arrives; on success receiveFileChunks
\* creates the output file and enters its loop
ClientDownloadReply ==
    /\ xfer.op = "client" /\ xfer.cpc = "download" /\ xfer.inbox # <<>>
    /\ \E r \in {awaitResponse(xfer.key, Head(xfer.inbox))} :
          xfer' = IF r = "ok"
                  THEN [Received(xfer) EXCEPT !.cpc = "chunks", !.chunks = <<>>,
                            !.totalSize = <<0, 0>>, !.totalChunks = 0, !.out = <<>>]
                  ELSE Returned(Received(xfer), r)
    /\ UNCHANGED <<connVars, frameIdle>>

\* receiveFileChunks: the next frame arrives
ClientChunk ==
    /\ xfer.op = "client" /\ xfer.cpc = "chunks" /\ xfer.inbox # <<>>
    /\ xfer' = receiveChunk(Received(xfer), Head(xfer.inbox))
    /\ UNCHANGED <<connVars, frameIdle>>

\* the server handles a frame; what it writes travels to the client
ServerHandleReply(c) ==
    /\ HandleFrame(c)
    /\ xfer' = [xfer EXCEPT !.inbox = @ \o last'[c].wrote]
    /\ UNCHANGED frameIdle

InitClient ==
    /\ InitConns
    /\ mbuf = <<>> /\ stream = <<>> /\ pending = <<>> /\ delivered = <<>> /\ fpc = "idle"
    /\ codecIn = NoCodec /\ codecOut = NoCodec
    /\ xfer = ClientNew

NextClient ==
    \/ ClientHandshake
    \/ ClientHandshakeReply
    \/ ClientUploadFile
    \/ ClientUploadReply
    \/ ClientDownloadFile
    \/ ClientDownloadReply
    \/ ClientChunk
    \/ ServerRead(ClientConn)
    \/ ServerNeedMore(ClientConn)
    \/ ServerHandleReply(ClientConn)

SpecClient == InitClient /\ [][NextClient]_vars

\* the server waits for a frame and nothing travels in either direction
Quiet ==
    /\ wire[ClientConn] = <<>> /\ messageBuffer[ClientConn] = <<>>
    /\ pc[ClientConn] = "read" /\ xfer.inbox = <<>>

\* the client is inside DownloadFile
Downloading == xfer.op = "client" /\ xfer.cpc \in {"download", "chunks"}

\* C16: once UploadFile of content B has succeeded, DownloadFile of the same
\* name in the same session returns, returns success, and leaves an output
\* file whose bytes are B.
C16_UploadDownloadRoundTrip ==
    (xfer.op = "client" /\ xfer.uploaded) =>
        /\ ~(Downloading /\ Quiet)
        /\ (xfer.cpc = "ready" /\ xfer.did = "download") =>
               (xfer.result = "ok" /\ xfer.out = xfer.local)

\* the server has a whole frame to handle: ServerHandleReply is enabled
CanHandle(c) ==
    /\ pc[c] = "drain"
    /\ messageBuffer[c] # <<>>
    /\ FrameReadable(Head(messageBuffer[c]))

\* the client and the server take their steps: weak fairness of each step
\* of the server's goroutine and of the client's blocking reads
FairClient ==
    /\ WF_vars(ServerRead(ClientConn))
    /\ WF_vars(ServerNeedMore(ClientConn))
    /\ ([]<>(~CanHandle(ClientConn)) \/ []<><<ServerHandleReply(ClientConn)>>_vars)
    /\ WF_vars(ClientDownloadReply)
    /\ WF_vars(ClientChunk)

SpecClientFair == SpecClient /\ FairClient

\* C17: every DownloadFile call returns, with success or with an error,
\* whatever the size of the file the server holds.
C17_DownloadReturns == Downloading ~> (xfer.op = "client" /\ xfer.cpc = "ready")

\* ------------------------------------------------------------------------
\* DownloadFile against an arbitrary peer: after the command is sent the
\* peer writes any frame at all, one at a time.
\* ------------------------------------------------------------------------
NameWrong == <<Ch.b>>

\* chunk records a peer may send: any name, index, totals and data
RecvChunks ==
    {[Filename |-> n, ChunkIndex |-> i, TotalChunks |-> t, ChunkSize |-> Len(d),
      TotalSize |-> z, Data |-> d] :
        n \in {NameA, NameWrong}, i \in 0..1, t \in 0..MaxChunks,
        z \in 0..MaxChunks, d \in {<<>>, <<7>>}}

RecvFrames ==
    {NewMessage(MessageTypeData, SealedPayload(ClientKey, SerializeChunkData(ch), TRUE)) :
        ch \in RecvChunks}
    \cup {NewMessage(MessageTypeResponse,
                     SealedPayload(ClientKey, SerializeResponse(ok, NameA, <<>>), TRUE)) :
            ok \in BOOLEAN}
    \cup {NewMessage(MessageTypeData, SealedPayload(ClientKey, <<>>, FALSE)),
          NewMessage(MessageTypeData, SealedPayload(ClientKey, <<0>>, TRUE)),
          NewMessage(MessageTypeCommand, SealedPayload(ClientKey, <<>>, TRUE))}

\* the peer writes one frame while the client is inside DownloadFile
PeerWrites ==
    /\ Downloading /\ xfer.inbox = <<>>
    /\ \E frame \in RecvFrames : xfer' = [xfer EXCEPT !.inbox = <<frame>>]
    /\ UNCHANGED <<connVars, frameIdle>>

\* the client after PerformHandshake, with one call left
InitRecv ==
    /\ InitConns
    /\ mbuf = <<>> /\ stream = <<>> /\ pending = <<>> /\ delivered = <<>> /\ fpc = "idle"
    /\ codecIn = NoCodec /\ codecOut = NoCodec
    /\ xfer = [ClientNew EXCEPT !.cpc = "ready", !.key = ClientKey,
                                !.ops = MaxClientOps - 1]

NextRecv ==
    \/ ClientDownloadFile
    \/ PeerWrites
    \/ ClientDownloadReply
    \/ ClientChunk

SpecRecv == InitRecv /\ [][NextRecv]_vars

\* what the client received during the call, read back from the frames
GotPlain(i) == ReceiveSecureMessage(xfer.key, xfer.got[i])
GotChunk(i) == DeserializeChunkData(GotPlain(i).Payload)
ChunkIdx ==
    {i \in 2..Len(xfer.got) : GotPlain(i).ok /\ GotPlain(i).Type = MessageTypeData}
FirstChunk == GotChunk(CHOOSE i \in ChunkIdx : \A j \in ChunkIdx : i <= j)

DownloadReturned == xfer.op = "client" /\ xfer.cpc = "ready" /\ xfer.did = "download"
DownloadOk == DownloadReturned /\ xfer.result = "ok"

\* C18: DownloadFile returns success only if the initial Response was a
\* success, every chunk received carried the requested filename, as many
\* chunks were received as chunk 0 announced, and the output file has the
\* size chunk 0 announced; so a mismatch of name, count or size is an error.
C18_DownloadSuccessChecked ==
    DownloadOk =>
        /\ Len(xfer.got) >= 1
        /\ GotPlain(1).ok /\ GotPlain(1).Type = MessageTypeResponse
        /\ DeserializeResponse(GotPlain(1).Payload).Success
        /\ \A i \in ChunkIdx : GotChunk(i).ok /\ GotChunk(i).Filename = xfer.filename
        /\ ChunkIdx = {} => xfer.out = <<>>
        /\ ChunkIdx # {} =>
              /\ Cardinality(ChunkIdx) = FirstChunk.TotalChunks
              /\ FirstChunk.TotalSizeHigh = 0
              /\ Len(xfer.out) = FirstChunk.TotalSize

\* a download of two chunks has returned success
C18_Witness ==
    /\ DownloadOk
    /\ Cardinality(ChunkIdx) = 2
    /\ Len(xfer.out) = 2

\* a chunk after chunk 0 announces other totals than chunk 0 did
Deviates(i) ==
    /\ i \in ChunkIdx
    /\ GotChunk(i).ok
    /\ \/ GotChunk(i).TotalChunks # FirstChunk.TotalChunks
       \/ GotChunk(i).TotalSize # FirstChunk.TotalSize
       \/ GotChunk(i).TotalSizeHigh # FirstChunk.TotalSizeHigh

\* C19: a chunk after chunk 0 whose total_chunks or total_size differs from
\* the values captured from chunk 0 makes DownloadFile fail.
C19_TotalsIdentical ==
    (DownloadReturned /\ \E i \in ChunkIdx : Deviates(i)) => xfer.result # "ok"

\* ------------------------------------------------------------------------
\* Listing
\* ------------------------------------------------------------------------
\* the names of the regular files directly in a directory
RegularIn(f, root) ==
    {Base(q) : q \in {p \in DOMAIN f : p # root /\ Parent(p) = root /\ ~f[p].isDir}}

\* the newline-joined listings of a set of names, in any order
Listings(S) ==
    {JoinNames(s) : s \in {t \in [1..Cardinality(S) -> S] :
                               \A i, j \in 1..Cardinality(S) : t[i] = t[j] => i = j}}

\* the List commands a client makes: Command(List, ""), and one that
\* carries a name
ListPayloads == {SerializeCommand(CommandList, n, <<>>) : n \in {<<>>, NameA}}

\* the server handles a well-sealed List command of an authenticated peer
ListHandled(c) ==
    /\ last'[c].n = last[c].n + 1
    /\ last'[c].stateBefore = "Authenticated"
    /\ last'[c].frame.Type = MessageTypeCommand
    /\ \E b \in ListPayloads :
          last'[c].frame.Payload = SealedPayload(last'[c].keyBefore, b, TRUE)

\* the frames written are one success Response whose message lists S
ListReply(w, key, S) ==
    /\ Len(w) = 1
    /\ w[1].Type = MessageTypeResponse
    /\ \E m \in Listings(S) :
          w[1].Payload = SealedPayload(key, SerializeResponse(TRUE, m, <<>>), TRUE)

\* C21: List is answered with one success Response whose message is the
\* newline-joined names of exactly the regular files now in the session
\* root, empty when there is none.
C21_ListIsExact ==
    [][\A c \in Conns :
          ListHandled(c) =>
              ListReply(last'[c].wrote, last'[c].keyBefore,
                        RegularIn(fs', SessionRoot(last'[c].keyBefore)))]_vars

\* ------------------------------------------------------------------------
\* The envelope on bytes (pkg/aes/aes.go).  cipher.AEAD is the library's:
\* Seal and Open are modelled by their contract, every byte of the sealed
\* text depending on the key and the nonce, and the tag on the plaintext
\* too.  A cell is one byte of the sealed text; f = 1 marks a byte that was
\* changed on the way.
\* ------------------------------------------------------------------------
Cell(t, k, n, p, i, v) == [t |-> t, k |-> k, n |-> n, p |-> p, i |-> i, v |-> v, f |-> 0]

\* the nonce as it is prepended
NonceCells(nonce) == [i \in 1..Len(nonce) |-> Cell("nonce", NoKey, <<>>, <<>>, i, nonce[i])]

\* the bytes of a nonce read back from its cells
NonceOf(cells) == [i \in 1..Len(cells) |-> IF cells[i].f = 0 THEN cells[i].v ELSE 255 - cells[i].v]

\* aesGCM.Seal(nil, nonce, plaintext, nil): ciphertext and tag
gcmSeal(key, nonce, plaintext) ==
    [i \in 1..Len(plaintext) |-> Cell("ct", key, nonce, <<>>, i, plaintext[i])]
    \o [i \in 1..TagSize |-> Cell("tag", key, nonce, plaintext, i, 0)]

\* aesGCM.Open(nil, nonce, ciphertext, nil): the plaintext when the text is
\* what Seal made under this key and nonce, an error otherwise
gcmOpen(key, nonce, ciphertext) ==
    LET Checked(p) ==
            IF ciphertext = gcmSeal(key, nonce, p)
            THEN [ok |-> TRUE, err |-> "", out |-> p]
            ELSE [ok |-> FALSE, err |-> "message authentication failed", out |-> <<>>]
    IN  IF Len(ciphertext) < TagSize
        THEN [ok |-> FALSE, err |-> "message authentication failed", out |-> <<>>]
        ELSE Checked([i \in 1..(Len(ciphertext) - TagSize) |-> ciphertext[i].v])

\* aes.Encrypt on bytes: the nonce, then what Seal returns
EncryptBytes(plaintext, key, nonce) ==
    IF ~NewCipherOk(key) THEN [ok |-> FALSE, err |-> "invalid key size", out |-> <<>>]
    ELSE [ok |-> TRUE, err |-> "", out |-> NonceCells(nonce) \o gcmSeal(key, nonce, plaintext)]

\* aes.Decrypt that slices without the test of the length
DecryptBytesNoLengthTest(ciphertext, key) ==
    IF ~NewCipherOk(key) THEN [ok |-> FALSE, err |-> "invalid key size", out |-> <<>>]
    ELSE IF Len(ciphertext) < NonceSize
         THEN [ok |-> FALSE, err |-> "panic", out |-> <<>>]
         ELSE gcmOpen(key, NonceOf(SubSeq(ciphertext, 1, NonceSize)),
                      SubSeq(ciphertext, NonceSize + 1, Len(ciphertext)))

\* aes.Decrypt on bytes
DecryptBytes(ciphertext, key) ==
    IF ~NewCipherOk(key) THEN [ok |-> FALSE, err |-> "invalid key size", out |-> <<>>]
    ELSE IF Len(ciphertext) < NonceSize
         THEN [ok |-> FALSE, err |-> "ciphertext too short", out |-> <<>>]
         ELSE gcmOpen(key, NonceOf(SubSeq(ciphertext, 1, NonceSize)),
                      SubSeq(ciphertext, NonceSize + 1, Len(ciphertext)))

Nonces == {[i \in 1..NonceSize |-> r] : r \in {0, 1}}
Plaintexts == BytesUpTo({1, 2}, MaxPayload)
NoResult == [ok |-> FALSE, err |-> "none", out |-> <<>>]

InitEnvelope ==
    /\ InitConns
    /\ mbuf = <<>> /\ stream = <<>> /\ pending = <<>> /\ delivered = <<>> /\ fpc = "idle"
    /\ codecIn = NoCodec /\ codecOut = NoCodec
    /\ \E k \in Keys \cup {ShortKey}, p \in Plaintexts :
          xfer = [op |-> "envelope", phase |-> "plain", key |-> k, plaintext |-> p,
                  sealed |-> <<>>, input |-> <<>>, changed |-> 0, cut |-> FALSE,
                  openKey |-> NoKey, result |-> NoResult]

\* Encrypt with a fresh nonce
EnvEncrypt ==
    /\ xfer.op = "envelope" /\ xfer.phase = "plain"
    /\ \E nonce \in Nonces :
       \E e \in {EncryptBytes(xfer.plaintext, xfer.key, nonce)} :
          xfer' = [xfer EXCEPT !.phase = IF e.ok THEN "sealed" ELSE "done",
                               !.sealed = e.out, !.input = e.out, !.result = e]
    /\ UNCHANGED <<connVars, frameIdle>>

\* one byte of the sealed text is changed on the way
EnvTamper ==
    /\ xfer.op = "envelope" /\ xfer.phase = "sealed" /\ xfer.changed = 0 /\ ~xfer.cut
    /\ \E i \in 1..Len(xfer.input) :
          xfer' = [xfer EXCEPT !.input[i].f = 1, !.changed = i]
    /\ UNCHANGED <<connVars, frameIdle>>

\* only the first n bytes arrive
EnvTruncate ==
    /\ xfer.op = "envelope" /\ xfer.phase = "sealed" /\ xfer.changed = 0 /\ ~xfer.cut
    /\ \E n \in 0..(Len(xfer.input) - 1) :
          xfer' = [xfer EXCEPT !.input = SubSeq(@, 1, n), !.cut = TRUE]
    /\ UNCHANGED <<connVars, frameIdle>>

\* Decrypt of what arrived, under any key
EnvDecrypt ==
    /\ xfer.op = "envelope" /\ xfer.phase = "sealed"
    /\ \E k \in Keys \cup {ShortKey} :
          xfer' = [xfer EXCEPT !.phase = "done", !.openKey = k,
                               !.result = DecryptBytes(xfer.input, k)]
    /\ UNCHANGED <<connVars, frameIdle>>

NextEnvelope ==
    \/ EnvEncrypt
    \/ EnvTamper
    \/ EnvTruncate
    \/ EnvDecrypt

SpecEnvelope == InitEnvelope /\ [][NextEnvelope]_vars

Opened == xfer.op = "envelope" /\ xfer.phase = "done" /\ xfer.sealed # <<>>

\* C22: what Encrypt made under k opens under k to the plaintext, the empty
\* one included; it does not open under another key; it does not open once
\* a byte of it is changed; and an input shorter than the nonce is an error
\* of Decrypt, never a panic.
C22_EnvelopeCorrect ==
    Opened =>
        /\ xfer.result.err # "panic"
        /\ (xfer.input = xfer.sealed /\ xfer.openKey = xfer.key) =>
               (xfer.result.ok /\ xfer.result.out = xfer.plaintext)
        /\ (xfer.openKey # xfer.key) => ~xfer.result.ok
        /\ (xfer.changed # 0) => ~xfer.result.ok
        /\ (Len(xfer.input) < NonceSize) =>
               /\ ~xfer.result.ok
               /\ NewCipherOk(xfer.openKey) => xfer.result.err = "ciphertext too short"

\* a sealed text with one byte changed was refused under the right key
C22_Witness ==
    /\ Opened
    /\ xfer.changed # 0 /\ xfer.openKey = xfer.key
    /\ ~xfer.result.ok

\* ------------------------------------------------------------------------
\* Payload codecs: a command or a response is encoded and decoded again,
\* and the decoders are applied to bytes whose declared length may exceed
\* what follows.
\* ------------------------------------------------------------------------
PayloadCommands == {CommandUpload, CommandDownload, CommandList, CommandDelete, 9}
PayloadNames == BytesUpTo({Ch.a, Ch.nl}, MaxNameLen)
PayloadData == BytesUpTo(CodecBytes, MaxPayload)

\* a one-byte tag, a declared length and the bytes that follow it
DeclaredInputs ==
    {[op |-> "bytes", decoder |-> "command", declared |-> n, rest |-> b,
      data |-> <<CommandUpload>> \o U16(n) \o b] :
        n \in 0..(MaxNameLen + 1), b \in BytesUpTo({Ch.a}, MaxNameLen)}
    \cup {[op |-> "bytes", decoder |-> "response", declared |-> n, rest |-> b,
           data |-> <<1>> \o U16(n) \o b] :
        n \in 0..(MaxNameLen + 1), b \in BytesUpTo({Ch.a}, MaxNameLen)}
    \cup {[op |-> "bytes", decoder |-> "frame", declared |-> n, rest |-> b,
           data |-> <<MessageTypeCommand>> \o U32(n) \o b] :
        n \in 0..(MaxNameLen + 1), b \in BytesUpTo({Ch.a}, MaxNameLen)}

InitPayload ==
    /\ InitConns
    /\ mbuf = <<>> /\ stream = <<>> /\ pending = <<>> /\ delivered = <<>> /\ fpc = "idle"
    /\ codecIn \in
          {[op |-> "command", Command |-> c, Filename |-> f, Data |-> d] :
              c \in PayloadCommands, f \in PayloadNames, d \in PayloadData}
          \cup {[op |-> "response", Success |-> ok, Message |-> m, Data |-> d] :
              ok \in BOOLEAN, m \in PayloadNames, d \in PayloadData}
          \cup DeclaredInputs
    /\ codecOut = NoCodec /\ xfer = NoXfer

\* DeserializeCommand(SerializeCommand(c, f, d))
RoundTripCommand ==
    /\ codecIn.op = "command" /\ codecOut.op = "none"
    /\ codecOut' = [op |-> "command",
                    res |-> DeserializeCommand(
                        SerializeCommand(codecIn.Command, codecIn.Filename, codecIn.Data))]
    /\ UNCHANGED <<mbuf, stream, pending, delivered, fpc, codecIn>>
    /\ UNCHANGED <<connVars, xfer>>

\* DeserializeResponse(SerializeResponse(s, m, d))
RoundTripResponse ==
    /\ codecIn.op = "response" /\ codecOut.op = "none"
    /\ codecOut' = [op |-> "response",
                    res |-> DeserializeResponse(
                        SerializeResponse(codecIn.Success, codecIn.Message, codecIn.Data))]
    /\ UNCHANGED <<mbuf, stream, pending, delivered, fpc, codecIn>>
    /\ UNCHANGED <<connVars, xfer>>

\* DeserializeCommand on received bytes
DecodeCommand ==
    /\ codecIn.op = "bytes" /\ codecIn.decoder = "command" /\ codecOut.op = "none"
    /\ \E r \in {DeserializeCommand(codecIn.data)} :
          codecOut' = [op |-> "bytes", ok |-> r.ok, field |-> r.Filename]
    /\ UNCHANGED <<mbuf, stream, pending, delivered, fpc, codecIn>>
    /\ UNCHANGED <<connVars, xfer>>

\* DeserializeResponse on received bytes
DecodeResponse ==
    /\ codecIn.op = "bytes" /\ codecIn.decoder = "response" /\ codecOut.op = "none"
    /\ \E r \in {DeserializeResponse(codecIn.data)} :
          codecOut' = [op |-> "bytes", ok |-> r.ok, field |-> r.Message]
    /\ UNCHANGED <<mbuf, stream, pending, delivered, fpc, codecIn>>
    /\ UNCHANGED <<connVars, xfer>>

\* Deserialize on received bytes
DecodeFrame ==
    /\ codecIn.op = "bytes" /\ codecIn.decoder = "frame" /\ codecOut.op = "none"
    /\ \E r \in {Deserialize(codecIn.data)} :
          codecOut' = [op |-> "bytes", ok |-> r.ok, field |-> r.Payload]
    /\ UNCHANGED <<mbuf, stream, pending, delivered, fpc, codecIn>>
    /\ UNCHANGED <<connVars, xfer>>

NextPayload ==
    \/ RoundTripCommand
    \/ RoundTripResponse
    \/ DecodeCommand
    \/ DecodeResponse
    \/ DecodeFrame

SpecPayload == InitPayload /\ [][NextPayload]_vars

\* C23: DeserializeCommand(SerializeCommand(c, f, d)) succeeds and returns
\* c, f and d, for every command code, every filename (the empty one of
\* List included) and every data (the empty one included).
C23_CommandRoundTrip ==
    codecOut.op = "command" =>
        /\ codecOut.res.ok
        /\ codecOut.res.Command = codecIn.Command
        /\ codecOut.res.Filename = codecIn.Filename
        /\ codecOut.res.Data = codecIn.Data

\* C24: DeserializeResponse(SerializeResponse(s, m, d)) succeeds and returns
\* s, m and d, for every flag, every message (the empty one included) and
\* every data (the empty one included).
C24_ResponseRoundTrip ==
    codecOut.op = "response" =>
        /\ codecOut.res.ok
        /\ codecOut.res.Success = codecIn.Success
        /\ codecOut.res.Message = codecIn.Message
        /\ codecOut.res.Data = codecIn.Data

\* C25: DeserializeCommand, DeserializeResponse and Deserialize return an
\* error when the declared length of the filename, message or payload
\* exceeds the bytes that follow it.
C25_DeclaredLengthChecked ==
    (codecOut.op = "bytes" /\ codecIn.declared > Len(codecIn.rest)) => ~codecOut.ok

\* ------------------------------------------------------------------------
\* Payload ceiling
\* ------------------------------------------------------------------------
PayloadCeiling == 1  \* the ceiling a deployment configures, in bytes

\* the header at the front of the buffer declares more than the ceiling
OverCeiling(buffer) == Len(buffer) >= 5 /\ GetU32(buffer, 2) > PayloadCeiling

\* C26: a header that declares a payload above the configured ceiling is
\* refused by TryDeserialize with an error of its own, neither awaited nor
\* delivered, and the reassembly buffer never holds more than the ceiling
\* and one frame in flight.
C26_CeilingEnforced ==
    /\ (TryCall /\ OverCeiling(codecIn.buffer)) =>
           codecOut.res.status \notin {"insufficient", "incomplete", "ok"}
    /\ (fpc = "feed" /\ Len(mbuf) >= 5) =>
           Len(mbuf) <= PayloadCeiling + 5 + PayloadCeiling

\* ------------------------------------------------------------------------
\* Handshake reply
\* ------------------------------------------------------------------------
\* the server handles, in state New, a Handshake frame that transports a
\* well-formed key
ValidHandshakeHandled(c) ==
    /\ last'[c].n = last[c].n + 1
    /\ last'[c].stateBefore = "New"
    /\ last'[c].frame.Type = MessageTypeHandshake
    /\ last'[c].frame.Payload.kind = "rsa" /\ last'[c].frame.Payload.ok
    /\ last'[c].frame.Payload.key \in Keys

\* the frame is a cleartext Response that the Response codec decodes to
\* (success, "handshake complete")
HandshakeConfirmation(frame) ==
    LET Is(r) == r.ok /\ r.Success /\ r.Message = msgHandshakeComplete /\ r.Data = <<>>
    IN  /\ frame.Type = MessageTypeResponse
        /\ frame.Payload.kind = "clear"
        /\ Is(DeserializeResponse(frame.Payload.bytes))

\* C27: a valid Handshake frame is answered with exactly one cleartext
\* Response frame that decodes to Response(success, "handshake complete"),
\* and the server is Authenticated after it.
C27_HandshakeReply ==
    [][\A c \in Conns :
          ValidHandshakeHandled(c) =>
              /\ Len(last'[c].wrote) = 1
              /\ HandshakeConfirmation(last'[c].wrote[1])
              /\ state'[c] = "Authenticated"]_vars

\* ------------------------------------------------------------------------
\* Session key and connection state
\* ------------------------------------------------------------------------
\* C28: once the handler of a connection has a session key, nothing that
\* happens on the connection changes it.
C28_SessionKeyImmutable ==
    [][\A c \in Conns : aesKey[c] # NoKey => aesKey'[c] = aesKey[c]]_vars

\* C29: the handler holds a session key exactly when its state is
\* Authenticated; once the connection is closed the state is Closed and the
\* key is gone.
C29_KeyIffAuthenticated ==
    \A c \in Conns :
        /\ (aesKey[c] # NoKey) <=> (state[c] = "Authenticated")
        /\ Closed(c) => (state[c] = "Closed" /\ aesKey[c] = NoKey)

\* ------------------------------------------------------------------------
\* The accept loop (Server.Run): the process listens, accepts connections
\* and serves each in a goroutine of its own.
\* ------------------------------------------------------------------------
InitAccept ==
    /\ InitConns
    /\ mbuf = <<>> /\ stream = <<>> /\ pending = <<>> /\ delivered = <<>> /\ fpc = "idle"
    /\ codecIn = NoCodec /\ codecOut = NoCodec
    /\ xfer = [op |-> "server", running |-> TRUE, accepted |-> {}, acceptFailed |-> FALSE]

\* listener.Accept returns a connection: a handler is made and started
Accept(c) ==
    /\ xfer.op = "server" /\ xfer.running
    /\ c \notin xfer.accepted
    /\ xfer' = [xfer EXCEPT !.accepted = @ \cup {c}]
    /\ UNCHANGED <<connVars, frameIdle>>

\* listener.Accept returns an error: log.Fatal ends the process, and with
\* it the listener and every handler goroutine
AcceptError ==
    /\ xfer.op = "server" /\ xfer.running
    /\ xfer' = [xfer EXCEPT !.running = FALSE, !.acceptFailed = TRUE]
    /\ UNCHANGED <<connVars, frameIdle>>

\* the handler goroutine of c exists and runs
CanServe(c) == xfer.op = "server" /\ xfer.running /\ c \in xfer.accepted

\* a step of the handler goroutine of an accepted connection
Serve(c) ==
    /\ CanServe(c)
    /\ \/ ServerRead(c)
       \/ ServerReadEOF(c)
       \/ ServerNeedMore(c)
       \/ ServerFrameError(c)
       \/ ServerHandle(c)

\* what the peer of an accepted connection sends: its handshake, then
\* List commands
AcceptFrames(c, k) ==
    IF k = NoKey
    THEN {NewMessage(MessageTypeHandshake, RsaPayload(IsoKey(c), TRUE))}
    ELSE {CommandFrame(k, Cmd(CommandList, NameA, <<>>), TRUE)}

\* the peer of an accepted connection writes or closes
PeerActs(c) ==
    /\ xfer.op = "server" /\ c \in xfer.accepted
    /\ \/ CanSend(c) /\ \E frame \in AcceptFrames(c, peerKey[c]) : Send(c, frame)
       \/ PeerClose(c)

NextAccept ==
    \/ AcceptError
    \/ \E c \in Conns :
          \/ Accept(c)
          \/ Serve(c)
          \/ PeerActs(c)

SpecAccept == InitAccept /\ [][NextAccept]_vars

\* a connection the server has accepted and not closed, with a frame to
\* read or to handle
Waiting(c) ==
    /\ xfer.op = "server" /\ c \in xfer.accepted
    /\ open[c] /\ pc[c] # "done"
    /\ (wire[c] # <<>> \/ messageBuffer[c] # <<>>)

\* C30: after listener.Accept has returned an error the accept loop is
\* still running, and connections being served are served on.
C30_AcceptErrorSurvived ==
    (xfer.op = "server" /\ xfer.acceptFailed) =>
        /\ xfer.running
        /\ \A c \in Conns : Waiting(c) => CanServe(c)

\* ------------------------------------------------------------------------
\* Truncated stream: the peer serialises frames, only the first bytes of
\* them arrive, then the peer closes.
\* ------------------------------------------------------------------------
InitTruncated ==
    /\ InitConns
    /\ stream \in FrameStreams
    /\ \E k \in 0..Len(SerializeAll(stream)) :
          /\ pending = SubSeq(SerializeAll(stream), 1, k)
          /\ xfer = [op |-> "truncated", supplied |-> k, eof |-> FALSE]
    /\ mbuf = <<>> /\ delivered = <<>> /\ fpc = "feed"
    /\ codecIn = NoCodec /\ codecOut = NoCodec

\* a read that returns bytes, and the drain loop after it
FeedTruncated ==
    /\ xfer.op = "truncated"
    /\ (FeedFragment \/ DrainFrame \/ DrainNotReady \/ DrainError)

\* HandleRawRequest that hands what is buffered to the handler when the
\* stream ends
ReadEOFDeliversPartial ==
    /\ xfer.op = "truncated" /\ fpc = "feed" /\ pending = <<>>
    /\ xfer' = [xfer EXCEPT !.eof = TRUE]
    /\ fpc' = "closed"
    /\ delivered' = IF Len(mbuf) >= 5
                     THEN Append(delivered, NewMessage(mbuf[1], SubSeq(mbuf, 6, Len(mbuf))))
                     ELSE delivered
    /\ UNCHANGED <<mbuf, stream, pending, codecIn, codecOut, connVars>>

\* HandleRawRequest: reader.Read returns io.EOF, the connection is closed
\* and the goroutine returns
ReadEOF ==
    /\ xfer.op = "truncated" /\ fpc = "feed" /\ pending = <<>>
    /\ xfer' = [xfer EXCEPT !.eof = TRUE]
    /\ fpc' = "closed"
    /\ UNCHANGED <<mbuf, stream, pending, delivered, codecIn, codecOut, connVars>>

NextTruncated == FeedTruncated \/ ReadEOF

SpecTruncated == InitTruncated /\ [][NextTruncated]_vars

\* C31: when the stream ends inside a frame the receiver closes, and what
\* it handed to the handler are whole frames only: frames of the stream, in
\* order, each with all its bytes supplied.
C31_NoPartialFrame ==
    xfer.op = "truncated" =>
        /\ IsPrefix(delivered, stream)
        /\ Len(SerializeAll(delivered)) <= xfer.supplied
        /\ xfer.eof => fpc = "closed"

\* the stream ended after a header and a part of the payload it announced
C31_Witness ==
    /\ xfer.op = "truncated" /\ xfer.eof /\ fpc = "closed"
    /\ Len(mbuf) > 5 /\ Len(mbuf) < 5 + GetU32(mbuf, 2)

\* ------------------------------------------------------------------------
\* The medium download scenario
\* ------------------------------------------------------------------------
\* the Data frames of the download of the 300 KiB file carry data of the
\* given sizes, one after the other, and together the whole file
S3Download(sizes) ==
    (xfer.op = "send" /\ xfer.totalSize = S3File) =>
        /\ xfer.chunkSize = 131072
        /\ xfer.totalChunks = 3
        /\ xfer.status # "panic"
        /\ xfer.sent <= Len(sizes)
        /\ xfer.sent > 0 =>
              /\ xfer.chunk.ChunkIndex = xfer.sent - 1
              /\ xfer.chunk.TotalChunks = 3
              /\ xfer.chunk.ChunkSize = WideOf(sizes[xfer.sent])
              /\ xfer.chunk.from = xfer.prev /\ xfer.chunk.to = xfer.pos
              /\ WideSub(xfer.chunk.to, xfer.chunk.from) = WideOf(sizes[xfer.sent])
        /\ xfer.status = "done" =>
              xfer.sent = Len(sizes) /\ xfer.pos = xfer.totalSize

\* C32 as stated: a 300 KiB file is sent with chunk_size 131072 in 3 Data
\* frames of 131072, 131072 and 37376 bytes whose concatenation is the file.
C32_MediumDownload == S3Download(<<131072, 131072, 37376>>)

\* C32 amended: a 300 KiB file is sent with chunk_size 131072 in 3 Data
\* frames of 131072, 131072 and 45056 bytes whose concatenation is the file.
C32_Amended == S3Download(<<131072, 131072, 45056>>)

\* the download of the 300 KiB file is over
C32_Witness ==
    /\ xfer.op = "send" /\ xfer.totalSize = S3File
    /\ xfer.status = "done" /\ xfer.sent = 3

\* ------------------------------------------------------------------------
\* Handshake whose key transport does not decrypt
\* ------------------------------------------------------------------------
\* the server handles a Handshake frame whose payload the private key does
\* not decrypt
BadHandshakeHandled(c) ==
    /\ last'[c].n = last[c].n + 1
    /\ last'[c].frame.Type = MessageTypeHandshake
    /\ DecryptWithPrivateKey(last'[c].frame.Payload) = NoKey

\* C33: a Handshake frame whose payload cannot be decrypted with the
\* server's private key closes the connection, is not answered with
\* "handshake complete", and does not make the connection Authenticated.
C33_BadHandshakeCloses ==
    [][\A c \in Conns :
          BadHandshakeHandled(c) =>
              /\ last'[c].err
              /\ last'[c].wrote = <<>>
              /\ (last'[c].stateBefore # "Authenticated" => state'[c] # "Authenticated")]_vars

\* ------------------------------------------------------------------------
\* Upload over an existing file
\* ------------------------------------------------------------------------
\* this step executes an Upload that is answered with success
Uploads(c) ==
    /\ Executes(c) /\ last'[c].command.Command = CommandUpload
    /\ Reply(c)'.ok /\ Reply(c)'.Success

\* the data of the Data frames w[from..], in order
RECURSIVE ChunksData(_, _)
ChunksData(w, from) ==
    IF from > Len(w) THEN <<>>
    ELSE DeserializeChunkData(w[from].Payload).Data \o ChunksData(w, from + 1)

\* what a Download of name answers on the filesystem f: a success Response,
\* then Data frames that carry exactly d
DownloadReturns(f, key, name, d) ==
    LET Sent(w) ==
            /\ Len(w) >= 1
            /\ w[1] = Response(TRUE, msgStartDownload)
            /\ \A i \in 2..Len(w) : w[i].Type = MessageTypeData
            /\ ChunksData(w, 2) = d
    IN  Sent(handleDownload(f, key, [ok |-> TRUE, Command |-> CommandDownload,
                                     Filename |-> name, Data |-> <<>>]).sent)

\* what a List answers on the filesystem f names the file at path once
ListShowsOnce(f, key, path) ==
    LET Names(dir) ==
            /\ dir.ok
            /\ Cardinality({i \in 1..Len(dir.names) : dir.names[i] = Base(path)}) = 1
        Sent(w) ==
            /\ Len(w) = 1
            /\ w[1] = Response(TRUE, JoinNames(ReadDir(f, SessionRoot(key)).names))
    IN  /\ Names(ReadDir(f, SessionRoot(key)))
        /\ Sent(handleList(f, key, [ok |-> TRUE, Command |-> CommandList,
                                    Filename |-> <<>>, Data |-> <<>>]).sent)

\* C34: a successful Upload of a name leaves the file holding exactly the
\* uploaded data, whatever an earlier Upload had stored under the name; a
\* Download of the name then answers with that data and a List shows the
\* name once.
C34_UploadReplaces ==
    [][\A c \in Conns :
          Uploads(c) =>
              /\ last'[c].resolved.ok
              /\ IsFile(fs', last'[c].resolved.path)
              /\ fs'[last'[c].resolved.path].data = last'[c].command.Data
              /\ DownloadReturns(fs', cmdKey[c], last'[c].command.Filename,
                                 last'[c].command.Data)
              /\ ListShowsOnce(fs', cmdKey[c], last'[c].resolved.path)]_vars

\* the first command of the session uploads the empty file over the
\* one-byte file an earlier Upload of the session had stored
C34_Witness ==
    \E c \in Conns :
        /\ last[c].n = 2 /\ last[c].executed
        /\ last[c].command.Command = CommandUpload
        /\ last[c].command.Data = <<>>
        /\ Reply(c).ok /\ Reply(c).Success
        /\ last[c].resolved.path \in last[c].changed
        /\ fs[last[c].resolved.path].data = <<>>

\* ------------------------------------------------------------------------
\* Chunk offsets
\* ------------------------------------------------------------------------
\* the range of chunk i computed without a word size:
\* [i * chunkSize, min((i + 1) * chunkSize, totalSize))
ExactBounds(totalSize, i, chunkSize) ==
    LET Range(start, end0) ==
            [start |-> start, end |-> IF WideLess(totalSize, end0) THEN totalSize ELSE end0]
        From(start) == Range(start, WideAdd(start, WideOf(chunkSize)))
    IN  From([hi |-> i * (chunkSize \div Limb), lo |-> 0])

\* C35: for every file size and every iteration i < total_chunks, the
\* start and end that sendFileInChunks computes in 32 bits are the exact
\* values i * chunkSize and min((i + 1) * chunkSize, |F|), with
\* 0 <= start <= end <= |F|.
C35_OffsetsDoNotWrap ==
    (xfer.op = "send" /\ xfer.status = "loop" /\ xfer.i < xfer.totalChunks) =>
        LET Same(b, e) ==
                /\ b.start = e.start /\ b.end = e.end
                /\ ~WideLess(b.end, b.start)
                /\ ~WideLess(xfer.totalSize, b.end)
        IN  Same(chunkBounds(xfer.totalSize, xfer.i, xfer.chunkSize),
                 ExactBounds(xfer.totalSize, xfer.i, xfer.chunkSize))

\* ------------------------------------------------------------------------
\* After the close
\* ------------------------------------------------------------------------
\* C36: once the handler has closed a connection it handles no frame of
\* it, executes no command and writes no frame on it; the frames left in
\* its buffer stay there, and the connection stays closed.
C36_NothingAfterClose ==
    [][\A c \in Conns :
          ~open[c] =>
              /\ ~open'[c] /\ pc'[c] = "done"
              /\ last'[c] = last[c]
              /\ messageBuffer'[c] = messageBuffer[c]
              /\ nExec'[c] = nExec[c]
              /\ nClear'[c] = nClear[c] /\ nSealed'[c] = nSealed[c]
              /\ state'[c] = state[c] /\ aesKey'[c] = aesKey[c]
              /\ fs' = fs]_vars

\* an authenticated connection was closed for a framing error while a
\* well-formed command of the session was complete in the buffer behind the
\* failing frame
C36_Witness ==
    \E c \in Conns :
        /\ ~open[c] /\ pc[c] = "done"
        /\ last[c].err /\ ~FrameReadable(last[c].frame)
        /\ state[c] = "Authenticated"
        /\ Len(messageBuffer[c]) = 2
        /\ messageBuffer[c][1] = last[c].frame
        /\ FrameReadable(messageBuffer[c][2])
        /\ messageBuffer[c][2].Type = MessageTypeCommand
        /\ ~BadSeal(messageBuffer[c][2].Payload, aesKey[c])

\* ------------------------------------------------------------------------
\* Alignment of requests and replies: the client of the client
\* specification against a server that holds a file "a" for the session;
\* the output path of a DownloadFile call may be one that cannot be created.
\* ------------------------------------------------------------------------
\* receiveFileChunks: os.Create(outputPath) fails and DownloadFile returns
\* the error, after the success Response was received
ClientCreateFails ==
    /\ xfer.op = "client" /\ xfer.cpc = "download" /\ xfer.inbox # <<>>
    /\ awaitResponse(xfer.key, Head(xfer.inbox)) = "ok"
    /\ xfer' = Returned(Received(xfer), "create output file")
    /\ UNCHANGED <<connVars, frameIdle>>

InitAlign ==
    /\ fs = PriorFs /\ InitHandlers
    /\ mbuf = <<>> /\ stream = <<>> /\ pending = <<>> /\ delivered = <<>> /\ fpc = "idle"
    /\ codecIn = NoCodec /\ codecOut = NoCodec
    /\ xfer = ClientNew

NextAlign == NextClient \/ ClientCreateFails

SpecAlign == InitAlign /\ [][NextAlign]_vars

\* the client's latest call (PerformHandshake, UploadFile or DownloadFile)
\* has returned success
CallSucceeded ==
    /\ xfer.op = "client" /\ xfer.cpc = "ready"
    /\ (xfer.did = "none" \/ xfer.result = "ok")

\* C37: when a client operation has returned success the server has
\* handled its command and the client has consumed every frame the server
\* wrote, so the next frame the client reads answers its next command.
C37_RepliesAligned ==
    CallSucceeded =>
        /\ xfer.inbox = <<>>
        /\ wire[ClientConn] = <<>> /\ messageBuffer[ClientConn] = <<>>

\* ------------------------------------------------------------------------
\* The output path of DownloadFile: the client of the receive
\* specification, started with a file already at the output path.
\* ------------------------------------------------------------------------
\* what the output path holds before the call
PriorOutput == <<9>>

InitOutput ==
    /\ InitConns
    /\ mbuf = <<>> /\ stream = <<>> /\ pending = <<>> /\ delivered = <<>> /\ fpc = "idle"
    /\ codecIn = NoCodec /\ codecOut = NoCodec
    /\ xfer = [ClientNew EXCEPT !.cpc = "ready", !.key = ClientKey,
                                !.ops = MaxClientOps - 1, !.out = PriorOutput]

SpecOutput == InitOutput /\ [][NextRecv]_vars

NameDot == <<Ch.dot>>                                \* "."
NameUp == <<Ch.a, Separator>> \o DotDot              \* "a/.."

DeleteCommands ==
    {Cmd(CommandDelete, NameA, <<>>), Cmd(CommandDelete, NameDot, <<>>),
     Cmd(CommandDelete, NameUp, <<>>), Cmd(CommandDelete, DotDot, <<>>),
     Cmd(CommandUpload, NameA, <<1>>)}

DeleteFrames(k) ==
    IF k = NoKey
    THEN {NewMessage(MessageTypeHandshake, RsaPayload("k1", TRUE))}
    ELSE {CommandFrame(k, q, TRUE) : q \in DeleteCommands}

DeleteSend(c) == CanSend(c) /\ \E frame \in DeleteFrames(peerKey[c]) : Send(c, frame)

NextDelete ==
    \E c \in {1} :
        \/ DeleteSend(c)
        \/ ServerRead(c)
        \/ ServerNeedMore(c)
        \/ ServerHandle(c)

SpecDelete == InitOrder /\ [][NextDelete]_vars

\* C39: a Delete removes one regular file inside the session root or
\* leaves the filesystem as it is; no directory, and in particular not the
\* session root, is removed.
C39_DeleteKeepsDirectories ==
    [][\A c \in Conns :
          (Executes(c) /\ last'[c].command.Command = CommandDelete) =>
              \/ fs' = fs
              \/ \E p \in DOMAIN fs :
                    /\ IsFile(fs, p)
                    /\ p # SessionRoot(cmdKey[c]) /\ InTree(p, SessionRoot(cmdKey[c]))
                    /\ fs' = [q \in DOMAIN fs \ {p} |-> fs[q]]]_vars

\* ------------------------------------------------------------------------
\* Length fields: the reply to a List command, followed on the sizes of its
\* parts.  The bytes of the listing are not stored; a size is written in
\* two limbs as in the chunk specification.
\* ------------------------------------------------------------------------
\* conversion to uint16: the value modulo 2^16, which is the low limb
Uint16(w) == w.lo

\* SerializeResponse(true, message, nil) for a message of n bytes: the
\* 16-bit length field, the message bytes written, the size of the payload
SerializeResponseSizes(n) ==
    [messageLen |-> Uint16(n), written |-> n, size |-> WideAdd(WideOf(3), n)]

\* Message.Serialize of a payload sealed by aes.Encrypt (nonce and tag
\* added): the 32-bit length field and the payload bytes written
SerializeSizes(plain) ==
    LET Framed(p) == [payloadLen |-> Uint32(p), written |-> p]
    IN  Framed(WideAdd(plain, WideOf(NonceSize + TagSize)))

\* DeserializeResponse of a payload of `size` bytes whose length field
\* holds messageLen: the sizes of the message and of the data it returns
DeserializeResponseSizes(size, messageLen) ==
    LET Read(avail, r) ==
            IF r.eof THEN [ok |-> FALSE, message |-> WideOf(0), data |-> WideOf(0)]
            ELSE [ok |-> TRUE, message |-> WideOf(messageLen),
                  data |-> WideSub(avail, WideOf(r.n))]
        Rest(avail) ==
            Read(avail, IF avail.hi > 0 THEN [n |-> messageLen, eof |-> FALSE]
                        ELSE ReaderRead(avail.lo, messageLen))
    IN  IF WideLess(size, WideOf(3))
        THEN [ok |-> FALSE, message |-> WideOf(0), data |-> WideOf(0)]
        ELSE Rest(WideSub(size, WideOf(3)))

\* sizes of a listing: around 0, 2^16 and 2^32
ListingSizes ==
    {[hi |-> h, lo |-> l] : h \in {0, 1, 2, Limb - 1, Limb, Limb + 1},
                            l \in {0, 1, 2, Limb - 30, Limb - 2, Limb - 1}}

InitLength ==
    /\ InitConns
    /\ mbuf = <<>> /\ stream = <<>> /\ pending = <<>> /\ delivered = <<>> /\ fpc = "idle"
    /\ codecIn = NoCodec /\ codecOut = NoCodec
    /\ \E n \in ListingSizes :
          xfer = [op |-> "length", stage |-> "listed", listing |-> n,
                  response |-> SerializeResponseSizes(WideOf(0)),
                  frame |-> SerializeSizes(WideOf(0)),
                  result |-> "none", message |-> WideOf(0)]

\* handleList: the listing is serialised, sealed, framed and written
ListReplySent ==
    /\ xfer.op = "length" /\ xfer.stage = "listed"
    /\ xfer' = [xfer EXCEPT
            !.stage = "sent",
            !.response = SerializeResponseSizes(xfer.listing),
            !.frame = SerializeSizes(SerializeResponseSizes(xfer.listing).size)]
    /\ UNCHANGED <<connVars, frameIdle>>

\* ListFiles: the frame is read by its length field, opened and decoded;
\* a sealed payload that was not read whole does not open
ListReplyReceived ==
    /\ xfer.op = "length" /\ xfer.stage = "sent"
    /\ \E r \in {DeserializeResponseSizes(xfer.response.size, xfer.response.messageLen)} :
          xfer' = [xfer EXCEPT
              !.stage = "returned",
              !.result = IF xfer.frame.payloadLen # xfer.frame.written
                         THEN "receive response"
                         ELSE IF ~r.ok THEN "deserialize response" ELSE "ok",
              !.message = IF xfer.frame.payloadLen = xfer.frame.written /\ r.ok
                          THEN r.message ELSE WideOf(0)]
    /\ UNCHANGED <<connVars, frameIdle>>

NextLength == ListReplySent \/ ListReplyReceived

SpecLength == InitLength /\ [][NextLength]_vars

\* C40: the 16-bit length field of the Response holds the number of message
\* bytes written, the 32-bit length field of the frame holds the number of
\* payload bytes written, and the message ListFiles returns has the size of
\* the listing the server built.
C40_LengthFieldsExact ==
    (xfer.op = "length" /\ xfer.stage # "listed") =>
        /\ WideOf(xfer.response.messageLen) = xfer.response.written
        /\ xfer.frame.payloadLen = xfer.frame.written
        /\ xfer.stage = "returned" =>
              (xfer.result = "ok" /\ xfer.message = xfer.listing)

====
